---- MODULE Spec2Model ----
(***************************************************************************)
(* State-machine model of the POI search application:                      *)
(*   - the useSearch composable (search-state coordinator),                *)
(*   - the Nominatim service (request building, rate limiter, response     *)
(*     normalisation).                                                     *)
(* Text is modelled as sequences of one-character strings so that trim,    *)
(* toLowerCase, split and join are computed and not assumed.  A nullable   *)
(* JavaScript value is a sequence of length 0 (null) or 1 (the value).     *)
(***************************************************************************)
EXTENDS Integers, Sequences, FiniteSets, TLC

VARIABLES
    results,            \* ref([])    : list of normalised POI records
    isLoading,          \* ref(false)
    error,              \* ref(null)  : Null or Some(message text)
    searchQuery,        \* ref('')
    selectedCategory,   \* ref('')
    selectedPOI,        \* ref(null)
    mapBounds,          \* ref(null)
    mapCenter,          \* ref(null)
    categoryOrder,      \* ref(getInitialCategories().map(c => c.key))
    lastRequestTime,    \* module-level state of the rate limiter
    clock,              \* Date.now()
    calls,              \* the API-client invocations made so far, in call order
    lastDispatch,       \* history: the time fetch was last called (Null: never)
    delivered,          \* history: the settlement last delivered to a direct caller
    nPromotes           \* history: number of direct promoteCategory calls counted

vars == <<results, isLoading, error, searchQuery, selectedCategory, selectedPOI,
          mapBounds, mapCenter, categoryOrder, lastRequestTime, clock, calls,
          lastDispatch, delivered, nPromotes>>

coordVars == <<results, isLoading, error, searchQuery, selectedCategory,
               selectedPOI, mapBounds, mapCenter, categoryOrder>>

-----------------------------------------------------------------------------
(* Bounds of the model *)

MaxCalls == 2       \* API-client invocations per behaviour of Spec
MaxOverlap == 2     \* API-client invocations per behaviour of OverlapSpec
MaxFetches == 3     \* API-client invocations per behaviour of RateSpec
TickStep == 500     \* milliseconds per clock advance
MaxItems == 2       \* longest upstream response body
MaxPromotes == 3    \* promoteCategory calls per behaviour of PromoteSpec
MaxApiCalls == 2    \* API-client invocations per behaviour of ApiSpec
MaxUses == 3        \* guard-passing searches per behaviour of MruSpec
MaxNormalized == 2  \* API-client invocations per behaviour of NormalizeSpec
MaxDetected == 2  \* API-client invocations per behaviour of DetectSpec

-----------------------------------------------------------------------------
(* Nullable values and text *)

Null == <<>>
Some(x) == <<x>>
UNDEFINED == "<undefined>"

UpperCaseLetters == <<"A","B","C","D","E","F","G","H","I","J","K","L","M",
                      "N","O","P","Q","R","S","T","U","V","W","X","Y","Z">>
LowerCaseLetters == <<"a","b","c","d","e","f","g","h","i","j","k","l","m",
                      "n","o","p","q","r","s","t","u","v","w","x","y","z">>

ToLowerChar(c) ==
    IF \E i \in 1..26 : UpperCaseLetters[i] = c
    THEN LowerCaseLetters[CHOOSE i \in 1..26 : UpperCaseLetters[i] = c]
    ELSE c

\* String.prototype.toLowerCase
ToLowerCase(s) == [i \in 1..Len(s) |-> ToLowerChar(s[i])]

IsSpace(c) == c \in {" ", "\t", "\n", "\r"}

RECURSIVE TrimStart(_)
TrimStart(s) == IF s = <<>> \/ ~IsSpace(Head(s)) THEN s ELSE TrimStart(Tail(s))

RECURSIVE TrimEnd(_)
TrimEnd(s) ==
    IF s = <<>> \/ ~IsSpace(s[Len(s)]) THEN s ELSE TrimEnd(SubSeq(s, 1, Len(s) - 1))

\* String.prototype.trim
Trim(s) == TrimEnd(TrimStart(s))

\* Array.prototype.join on a list of texts
RECURSIVE Join(_, _)
Join(parts, sep) ==
    IF parts = <<>> THEN <<>>
    ELSE IF Len(parts) = 1 THEN parts[1]
    ELSE parts[1] \o sep \o Join(Tail(parts), sep)

\* s.split(',')[0]
RECURSIVE FirstSegment(_)
FirstSegment(s) ==
    IF s = <<>> \/ Head(s) = "," THEN <<>> ELSE <<Head(s)>> \o FirstSegment(Tail(s))

\* Array.prototype.indexOf, as a 0-based index, -1 when absent
IndexOf(seq, x) ==
    IF \E i \in 1..Len(seq) : seq[i] = x
    THEN (CHOOSE i \in 1..Len(seq) : seq[i] = x /\ \A j \in 1..(i - 1) : seq[j] # x) - 1
    ELSE -1

-----------------------------------------------------------------------------
(* The fixed category table *)

\* Object.entries(CATEGORIES) order = declaration order
CategoryKeys == <<"restaurant", "hotel", "cafe", "park", "hospital", "pharmacy",
                  "fuel", "bank", "atm", "supermarket", "museum", "parking">>

KeySet == {CategoryKeys[i] : i \in 1..Len(CategoryKeys)}

Cat(label, amenity, tourism, leisure, shop, icon) ==
    [label |-> label, amenity |-> amenity, tourism |-> tourism,
     leisure |-> leisure, shop |-> shop, icon |-> icon]

CATEGORIES ==
    [k \in KeySet |->
       CASE k = "restaurant" ->
              Cat(<<"R","e","s","t","a","u","r","a","n","t","s">>,
                  "restaurant", UNDEFINED, UNDEFINED, UNDEFINED, "fork-and-knife")
         [] k = "hotel" ->
              Cat(<<"H","o","t","e","l","s">>,
                  UNDEFINED, "hotel", UNDEFINED, UNDEFINED, "hotel")
         [] k = "cafe" ->
              Cat(<<"C","a","f","e","s">>,
                  "cafe", UNDEFINED, UNDEFINED, UNDEFINED, "hot-beverage")
         [] k = "park" ->
              Cat(<<"P","a","r","k","s">>,
                  UNDEFINED, UNDEFINED, "park", UNDEFINED, "deciduous-tree")
         [] k = "hospital" ->
              Cat(<<"H","o","s","p","i","t","a","l","s">>,
                  "hospital", UNDEFINED, UNDEFINED, UNDEFINED, "hospital")
         [] k = "pharmacy" ->
              Cat(<<"P","h","a","r","m","a","c","i","e","s">>,
                  "pharmacy", UNDEFINED, UNDEFINED, UNDEFINED, "pill")
         [] k = "fuel" ->
              Cat(<<"G","a","s"," ","S","t","a","t","i","o","n","s">>,
                  "fuel", UNDEFINED, UNDEFINED, UNDEFINED, "fuel-pump")
         [] k = "bank" ->
              Cat(<<"B","a","n","k","s">>,
                  "bank", UNDEFINED, UNDEFINED, UNDEFINED, "bank")
         [] k = "atm" ->
              Cat(<<"A","T","M","s">>,
                  "atm", UNDEFINED, UNDEFINED, UNDEFINED, "credit-card")
         [] k = "supermarket" ->
              Cat(<<"S","u","p","e","r","m","a","r","k","e","t","s">>,
                  UNDEFINED, UNDEFINED, UNDEFINED, "supermarket", "shopping-cart")
         [] k = "museum" ->
              Cat(<<"M","u","s","e","u","m","s">>,
                  UNDEFINED, "museum", UNDEFINED, UNDEFINED, "classical-building")
         [] k = "parking" ->
              Cat(<<"P","a","r","k","i","n","g">>,
                  "parking", UNDEFINED, UNDEFINED, UNDEFINED, "p-button")]

\* CATEGORIES is a plain object literal: a property read also finds the members
\* it inherits from Object.prototype, all of them truthy functions or objects.
ObjectPrototypeKeys == {"constructor", "toString", "valueOf", "hasOwnProperty",
                        "isPrototypeOf", "propertyIsEnumerable", "toLocaleString",
                        "__proto__"}

\* the truthiness of CATEGORIES[category]
CategoryLookupTruthy(category) ==
    category \in KeySet \/ category \in ObjectPrototypeKeys

\* the text a template or a field holds for the value undefined
UndefinedText == <<UNDEFINED>>

\* the value of CATEGORIES[category] when it is truthy: an inherited member has
\* none of the fields label, amenity, tourism, leisure, shop, icon
CategoryLookup(category) ==
    IF category \in KeySet THEN CATEGORIES[category]
    ELSE Cat(UndefinedText, UNDEFINED, UNDEFINED, UNDEFINED, UNDEFINED, UNDEFINED)

\* variant of the initial order: the keys sorted by their labels
InitialCategoryOrderByLabel ==
    <<"atm", "bank", "cafe", "fuel", "hospital", "hotel", "museum", "parking", "park",
      "pharmacy", "restaurant", "supermarket">>

\* getInitialCategories().map(c => c.key)
InitialCategoryOrder == CategoryKeys

-----------------------------------------------------------------------------
(* Numbers and their text *)

Digits == <<"0","1","2","3","4","5","6","7","8","9">>

IsDigit(c) == \E d \in 1..10 : Digits[d] = c
DigitValue(c) == (CHOOSE d \in 1..10 : Digits[d] = c) - 1

\* String(n) for an integer n
RECURSIVE NatText(_)
NatText(n) == IF n < 10 THEN <<Digits[n + 1]>> ELSE NatText(n \div 10) \o <<Digits[(n % 10) + 1]>>

NumText(n) == IF n < 0 THEN <<"-">> \o NatText(-n) ELSE NatText(n)

RECURSIVE LeadingDigits(_)
LeadingDigits(s) ==
    IF s = <<>> \/ ~IsDigit(Head(s)) THEN <<>> ELSE <<Head(s)>> \o LeadingDigits(Tail(s))

RECURSIVE DigitsValue(_)
DigitsValue(ds) ==
    IF ds = <<>> THEN 0 ELSE 10 * DigitsValue(SubSeq(ds, 1, Len(ds) - 1)) + DigitValue(ds[Len(ds)])

RECURSIVE StripTrailingZeros(_)
StripTrailingZeros(ds) ==
    IF ds = <<>> \/ ds[Len(ds)] # "0" THEN ds ELSE StripTrailingZeros(SubSeq(ds, 1, Len(ds) - 1))

\* parseFloat on a decimal numeral [-]digits[.digits]: the number as sign,
\* integer part and fraction digits without trailing zeros; NaN when no digit
\* leads the text
ParseFloat(s) ==
    LET t    == TrimStart(s)
        neg  == t # <<>> /\ Head(t) = "-"
        body == IF neg THEN Tail(t) ELSE t
        ip   == LeadingDigits(body)
        rest == SubSeq(body, Len(ip) + 1, Len(body))
        fp   == IF rest # <<>> /\ Head(rest) = "." THEN LeadingDigits(Tail(rest)) ELSE <<>>
    IN  IF ip = <<>> /\ fp = <<>>
        THEN [nan |-> TRUE, neg |-> FALSE, int |-> 0, frac |-> <<>>]
        ELSE [nan |-> FALSE, neg |-> neg, int |-> DigitsValue(ip),
              frac |-> StripTrailingZeros(fp)]

-----------------------------------------------------------------------------
(* Response normalisation *)

GenericIcon == "round-pushpin"

NoAddress == [road |-> <<>>, house_number |-> <<>>, city |-> <<>>, town |-> <<>>,
              village |-> <<>>, country |-> <<>>]

\* a || b on texts: the empty text is falsy
OrText(a, b) == IF a # <<>> THEN a ELSE b

\* variant of the address parts that leaves the house number out
AddressPartsWithoutHouseNumber(address) ==
    LET p1 == IF address.road # <<>> THEN <<address.road>> ELSE <<>>
        place == OrText(address.city, OrText(address.town, address.village))
        p3 == IF place # <<>> THEN Append(p1, place) ELSE p1
    IN  IF address.country # <<>> THEN Append(p3, address.country) ELSE p3

\* lines 354-360: the address parts
AddressParts(address) ==
    LET p1 == IF address.road # <<>> THEN <<address.road>> ELSE <<>>
        p2 == IF address.house_number # <<>>
              THEN LET first == IF p1 # <<>> THEN p1[1] ELSE <<>>
                       combined == Trim(first \o <<" ">> \o address.house_number)
                   IN  <<combined>> \o (IF p1 # <<>> THEN Tail(p1) ELSE <<>>)
              ELSE p1
        place == OrText(address.city, OrText(address.town, address.village))
        p3 == IF place # <<>> THEN Append(p2, place) ELSE p2
    IN  IF address.country # <<>> THEN Append(p3, address.country) ELSE p3

\* one test of the detection loop, lines 366-369
TagMatches(cat, type) ==
    \/ cat.amenity = type
    \/ cat.tourism = type
    \/ cat.leisure = type
    \/ cat.shop = type

\* lines 363-374: the hinted category when truthy, else the first table entry
\* (declaration order) with a tag equal to item.type, else the hint unchanged
DetectCategory(item, categoryKey) ==
    IF categoryKey # "" /\ categoryKey # UNDEFINED THEN categoryKey
    ELSE IF \E i \in 1..Len(CategoryKeys) : TagMatches(CATEGORIES[CategoryKeys[i]], item.type)
         THEN CategoryKeys[CHOOSE i \in 1..Len(CategoryKeys) :
                  /\ TagMatches(CATEGORIES[CategoryKeys[i]], item.type)
                  /\ \A j \in 1..(i - 1) : ~TagMatches(CATEGORIES[CategoryKeys[j]], item.type)]
         ELSE categoryKey

\* line 376
CategoryInfo(item, detectedCategory) ==
    IF CategoryLookupTruthy(detectedCategory)
    THEN LET c == CategoryLookup(detectedCategory) IN [icon |-> c.icon, label |-> c.label]
    ELSE [icon |-> GenericIcon,
          label |-> IF item.type # UNDEFINED /\ item.type # "" THEN <<item.type>> ELSE <<"Place">>]

normalizePOI(item, categoryKey) ==
    LET address          == IF item.address = Null THEN NoAddress ELSE item.address[1]
        addressParts     == AddressParts(address)
        detectedCategory == DetectCategory(item, categoryKey)
        categoryInfo     == CategoryInfo(item, detectedCategory)
    IN  [id            |-> item.place_id,
         name          |-> OrText(item.name, FirstSegment(item.display_name)),
         displayName   |-> item.display_name,
         address       |-> OrText(Join(addressParts, <<",", " ">>), item.display_name),
         lat           |-> ParseFloat(item.lat),
         lon           |-> ParseFloat(item.lon),
         type          |-> item.type,
         category      |-> detectedCategory,
         categoryLabel |-> categoryInfo.label,
         icon          |-> categoryInfo.icon,
         boundingBox   |-> IF item.boundingbox = Null THEN Null
                           ELSE Some([i \in 1..Len(item.boundingbox[1]) |->
                                        ParseFloat(item.boundingbox[1][i])]),
         raw           |-> item]

\* data.map(item => normalizePOI(item, category))
NormalizeAll(data, category) == [i \in 1..Len(data) |-> normalizePOI(data[i], category)]

-----------------------------------------------------------------------------
(* Request parameters *)

\* `${viewbox.west},${viewbox.south},${viewbox.east},${viewbox.north}`
ViewboxText(viewbox) ==
    NumText(viewbox.west) \o <<",">> \o NumText(viewbox.south) \o <<",">>
        \o NumText(viewbox.east) \o <<",">> \o NumText(viewbox.north)

\* variant of the tag filter chain that knows the amenity dimension only
TagParamsAmenityOnly(cat) ==
    LET none == [amenity |-> Null, tourism |-> Null, leisure |-> Null, shop |-> Null]
    IN  IF cat.amenity # UNDEFINED THEN [none EXCEPT !.amenity = Some(cat.amenity)]
        ELSE none

\* the tag filter chain: the first truthy of amenity, tourism, leisure, shop
TagParams(cat) ==
    LET none == [amenity |-> Null, tourism |-> Null, leisure |-> Null, shop |-> Null]
    IN  IF cat.amenity # UNDEFINED THEN [none EXCEPT !.amenity = Some(cat.amenity)]
        ELSE IF cat.tourism # UNDEFINED THEN [none EXCEPT !.tourism = Some(cat.tourism)]
        ELSE IF cat.leisure # UNDEFINED THEN [none EXCEPT !.leisure = Some(cat.leisure)]
        ELSE IF cat.shop # UNDEFINED THEN [none EXCEPT !.shop = Some(cat.shop)]
        ELSE none

BaseParams(q, limit) ==
    [q |-> q, format |-> "json", addressdetails |-> "1", limit |-> NumText(limit),
     extratags |-> "1", viewbox |-> Null, bounded |-> Null,
     amenity |-> Null, tourism |-> Null, leisure |-> Null, shop |-> Null]

WithTags(params, tags) ==
    [params EXCEPT !.amenity = tags.amenity, !.tourism = tags.tourism,
                   !.leisure = tags.leisure, !.shop = tags.shop]

\* searchPOI, lines 245-275: the URL as endpoint and parameters
SearchPOIUrl(query, category, limit, viewbox) ==
    LET p0 == BaseParams(query, limit)
        p1 == IF viewbox # Null
              THEN [p0 EXCEPT !.viewbox = Some(ViewboxText(viewbox[1])), !.bounded = Some("1")]
              ELSE p0
        p2 == IF category # "" /\ category # UNDEFINED /\ CategoryLookupTruthy(category)
              THEN WithTags(p1, TagParams(CategoryLookup(category)))
              ELSE p1
    IN  [endpoint |-> "/search", params |-> p2]

\* searchByCategory, lines 294-323
SearchByCategoryUrl(category, limit, viewbox) ==
    LET cat == CategoryLookup(category)
        p0  == BaseParams(cat.label, limit)
        p1  == IF viewbox # Null
               THEN [p0 EXCEPT !.viewbox = Some(ViewboxText(viewbox[1])), !.bounded = Some("1")]
               ELSE p0
    IN  [endpoint |-> "/search", params |-> WithTags(p1, TagParams(cat))]

\* reverseGeocode, lines 336-343
ReverseGeocodeUrl(lat, lon) ==
    [endpoint |-> "/reverse",
     params |-> [lat |-> NumText(lat), lon |-> NumText(lon), format |-> "json",
                 addressdetails |-> "1"]]

-----------------------------------------------------------------------------
(* Inputs of the model *)

Empty    == <<>>
Spaces   == <<" ", " ", " ">>
Pizza    == <<"p","i","z","z","a">>

Queries == {Empty, Spaces, Pizza}

\* category arguments: a table key, the empty string, an unknown key, a name
\* inherited from Object.prototype
InputCategories == {"", "cafe", "invalid", "constructor"}

Bounds1 == [south |-> 52, west |-> 13, north |-> 53, east |-> 14]
Center1 == [lat |-> 52, lng |-> 13]

ViewportInputs == {<<Some(Bounds1), Some(Center1)>>}

\* a second box, south of the equator: its latitudes are negative numbers
Bounds2 == [south |-> -34, west |-> 151, north |-> -33, east |-> 152]

\* the viewbox argument of the API client: absent, or a box
ApiViewboxes == {Null, Some(Bounds1), Some(Bounds2)}

\* the category argument of the API client: every key of the table, the empty
\* string, no argument, an unknown key, a name inherited from Object.prototype
ApiCategories == KeySet \cup {"", UNDEFINED, "invalid", "constructor"}

RawCafe ==
    [place_id |-> 12345,
     name |-> <<"J","o","e","s">>,
     display_name |-> <<"J","o","e","s",","," ","B","e","r","l","i","n">>,
     lat |-> <<"5","2",".","5","2","0","0">>,
     lon |-> <<"1","3",".","4","0","5","0">>,
     type |-> "cafe",
     address |-> Some([NoAddress EXCEPT !.road = <<"M","a","i","n"," ","S","t">>,
                                        !.house_number = <<"1">>,
                                        !.city = <<"B","e","r","l","i","n">>,
                                        !.country = <<"G","e","r","m","a","n","y">>]),
     boundingbox |-> Null]

RawMuseum ==
    [place_id |-> 678,
     name |-> <<>>,
     display_name |-> <<"L","o","u","v","r","e",","," ","P","a","r","i","s">>,
     lat |-> <<"4","8",".","8","6">>,
     lon |-> <<"2",".","3","3","7","0">>,
     type |-> "museum",
     address |-> Some([NoAddress EXCEPT !.town = <<"P","a","r","i","s">>]),
     boundingbox |-> Some(<<<<"4","8",".","8">>, <<"4","8",".","9","0">>,
                            <<"2",".","3">>, <<"2",".","4">>>>)]

\* the items upstream returns, in upstream relevance order
RawItemAt(i) == IF i % 2 = 1 THEN RawCafe ELSE RawMuseum

\* response bodies of every length up to MaxItems
Payloads == {[i \in 1..n |-> RawItemAt(i)] : n \in 0..MaxItems}

\* the address objects upstream may return: each field absent or present, and
\* no address object at all
AddressInputs ==
    {Null} \cup
    {Some(a) : a \in [road         : {<<>>, <<"M","a","i","n"," ","S","t">>},
                      house_number : {<<>>, <<"1">>},
                      city         : {<<>>, <<"B","e","r","l","i","n">>},
                      town         : {<<>>, <<"P","o","t","s","d","a","m">>},
                      village      : {<<>>, <<"L","e","h","n","i","n">>},
                      country      : {<<>>, <<"G","e","r","m","a","n","y">>}]}

\* an upstream item with the given address
RawWithAddress(a) == [RawCafe EXCEPT !.address = a]

\* a record that is not an element of any result list
ForeignPOI == normalizePOI([RawCafe EXCEPT !.place_id = 999], "")

HttpErrorStatuses == {500}

-----------------------------------------------------------------------------
(* Rate limiter *)

MIN_REQUEST_INTERVAL == 1000

\* Date.now() when the module is loaded: at least one interval after time 0
StartTime == MIN_REQUEST_INTERVAL

\* variant of the wait: the time since the last request instead of the rest
\* of the interval
RateLimitDelayElapsedOnly(now, last) ==
    IF now - last < MIN_REQUEST_INTERVAL THEN now - last ELSE 0

\* lines 209-216: the timer a caller starting at `now` waits on, 0 for none
RateLimitDelay(now, last) ==
    IF now - last < MIN_REQUEST_INTERVAL THEN MIN_REQUEST_INTERVAL - (now - last) ELSE 0

\* the record of an API-client invocation that has run the synchronous part of
\* rateLimitedFetch: suspended on the timer, or dispatched (fetch called)
NewCall(fn, caller, query, category, viewbox, center, url) ==
    LET delay == RateLimitDelay(clock, lastRequestTime)
    IN  [fn |-> fn, caller |-> caller, query |-> query, category |-> category,
         viewbox |-> viewbox, center |-> center, url |-> url,
         pc |-> IF delay > 0 THEN "timer" ELSE "fetch",
         due |-> IF delay > 0 THEN clock + delay ELSE 0,
         outcome |-> "pending", value |-> <<>>]

\* variant of the stamp: written when the caller begins, before its wait
LastRequestTimeStampedBeforeWait == clock

\* line 218 on the path without timer
LastRequestTimeAfterBegin ==
    IF RateLimitDelay(clock, lastRequestTime) > 0 THEN lastRequestTime ELSE clock

\* line 220 on the path without timer: fetch is called in the same task
LastDispatchAfterBegin ==
    IF RateLimitDelay(clock, lastRequestTime) > 0 THEN lastDispatch ELSE Some(clock)

\* a call that rejected before rateLimitedFetch was reached
FailedCall(fn, caller) ==
    [fn |-> fn, caller |-> caller, query |-> <<>>, category |-> "",
     viewbox |-> Null, center |-> Null, url |-> Null,
     pc |-> "done", due |-> 0, outcome |-> "rejected", value |-> <<>>]

NothingDelivered == [call |-> 0, fn |-> "", outcome |-> "none", value |-> <<>>]

-----------------------------------------------------------------------------
(* The search coordinator (useSearch) *)

MsgEnterTerm   == <<"Please enter a search term">>
MsgSelectCat   == <<"Please select a category">>
MsgNoResults   == <<"No results found. Try a different search term.">>
MsgFailed      == <<"Search failed. Please try again.">>

\* getInitialCategories, lines 397-402: one entry of the list
CategoryEntry(k) ==
    LET value == CATEGORIES[k]
    IN  [key |-> k, label |-> value.label, amenity |-> value.amenity,
         tourism |-> value.tourism, leisure |-> value.leisure,
         shop |-> value.shop, icon |-> value.icon]

\* lines 23-28: the computed list the composable exposes; a key without an
\* entry is dropped by filter(Boolean)
CategoriesOf(order) ==
    LET found == SelectSeq(order, LAMBDA k : k \in KeySet)
    IN  [i \in 1..Len(found) |-> CategoryEntry(found[i])]

\* Faulty variants of promoteCategory, against which the properties of the
\* category order are tested.
\* unshift without splice: the promoted key is kept at its old place too
promoteCategoryKeepsCopy(order, categoryKey) ==
    IF categoryKey = "" \/ categoryKey = UNDEFINED THEN order
    ELSE IF IndexOf(order, categoryKey) > 0 THEN <<categoryKey>> \o order ELSE order

\* push instead of unshift: the promoted key goes to the back
promoteCategoryToBack(order, categoryKey) ==
    IF categoryKey = "" \/ categoryKey = UNDEFINED THEN order
    ELSE LET currentIndex == IndexOf(order, categoryKey)
         IN  IF currentIndex > 0
             THEN SubSeq(order, 1, currentIndex)
                     \o SubSeq(order, currentIndex + 2, Len(order)) \o <<categoryKey>>
             ELSE order

\* currentIndex !== 0 instead of currentIndex > 0: an absent key is unshifted
promoteCategoryUnlessFirst(order, categoryKey) ==
    IF categoryKey = "" \/ categoryKey = UNDEFINED THEN order
    ELSE LET currentIndex == IndexOf(order, categoryKey)
         IN  IF currentIndex # 0
             THEN <<categoryKey>> \o SelectSeq(order, LAMBDA k : k # categoryKey)
             ELSE order

\* swap instead of splice and unshift: the promoted key and the first key
\* change places
promoteCategorySwapsWithFirst(order, categoryKey) ==
    IF categoryKey = "" \/ categoryKey = UNDEFINED THEN order
    ELSE LET currentIndex == IndexOf(order, categoryKey)
         IN  IF currentIndex > 0
             THEN [order EXCEPT ![1] = categoryKey, ![currentIndex + 1] = order[1]]
             ELSE order

\* lines 33-43
promoteCategory(order, categoryKey) ==
    IF categoryKey = "" \/ categoryKey = UNDEFINED THEN order
    ELSE LET currentIndex == IndexOf(order, categoryKey)
         IN  IF currentIndex > 0
             THEN <<categoryKey>> \o SubSeq(order, 1, currentIndex)
                                  \o SubSeq(order, currentIndex + 2, Len(order))
             ELSE order

\* faulty variant of the guard of search: query tested without trim()
SearchGuardWithoutTrim(query) == query = <<>>

\* line 57
SearchGuardRejects(query) == Trim(query) = <<>>

\* line 96
CategoryGuardRejects(category) ==
    category = "" \/ category = UNDEFINED \/ ~CategoryLookupTruthy(category)

\* line 290
ApiCategoryInvalid(category) ==
    category = "" \/ category = UNDEFINED \/ ~CategoryLookupTruthy(category)

\* faulty variant of the empty-result message: the label as declared
NoCategoryResultsMessageAsDeclared(catLabel) ==
    <<"No ">> \o catLabel \o <<" found in this area. Try panning the map.">>

\* line 121
NoCategoryResultsMessage(catLabel) ==
    <<"No ">> \o ToLowerCase(catLabel) \o <<" found in this area. Try panning the map.">>

Init ==
    /\ results = <<>>
    /\ isLoading = FALSE
    /\ error = Null
    /\ searchQuery = <<>>
    /\ selectedCategory = ""
    /\ selectedPOI = Null
    /\ mapBounds = Null
    /\ mapCenter = Null
    /\ categoryOrder = InitialCategoryOrder
    /\ lastRequestTime = 0
    /\ clock = StartTime
    /\ calls = <<>>
    /\ lastDispatch = Null
    /\ delivered = NothingDelivered
    /\ nPromotes = 0

\* faulty variant of updateMapViewport: moving the map also drops the results
updateMapViewportDropsResults(bounds, center) ==
    /\ mapBounds' = bounds
    /\ mapCenter' = center
    /\ results' = <<>>
    /\ UNCHANGED <<isLoading, error, searchQuery, selectedCategory, selectedPOI,
                   categoryOrder, lastRequestTime, clock, calls, lastDispatch, delivered,
                   nPromotes>>

\* lines 48-51
updateMapViewport(bounds, center) ==
    /\ mapBounds' = bounds
    /\ mapCenter' = center
    /\ UNCHANGED <<results, isLoading, error, searchQuery, selectedCategory, selectedPOI,
                   categoryOrder, lastRequestTime, clock, calls, lastDispatch, delivered, nPromotes>>

\* variant of search that leaves the results of the search before in place
\* until the response arrives
searchKeepsOldResults(query, category) ==
    IF SearchGuardRejects(query)
    THEN /\ error' = Some(MsgEnterTerm)
         /\ UNCHANGED <<results, isLoading, searchQuery, selectedCategory, selectedPOI,
                        mapBounds, mapCenter, categoryOrder, lastRequestTime, clock,
                        calls, lastDispatch, delivered, nPromotes>>
    ELSE /\ searchQuery' = query
         /\ selectedCategory' = category
         /\ isLoading' = TRUE
         /\ error' = Null
         /\ selectedPOI' = Null
         /\ categoryOrder' = IF category # "" THEN promoteCategory(categoryOrder, category)
                             ELSE categoryOrder
         /\ calls' = Append(calls, NewCall("searchPOI", "search", query, category,
                                           mapBounds, Null,
                                           Some(SearchPOIUrl(query, category, 20, mapBounds))))
         /\ lastRequestTime' = LastRequestTimeAfterBegin
         /\ lastDispatch' = LastDispatchAfterBegin
         /\ UNCHANGED <<results, mapBounds, mapCenter, clock, delivered, nPromotes>>

\* variant of search that calls searchPOI without the viewbox option
searchWithoutViewbox(query, category) ==
    IF SearchGuardRejects(query)
    THEN /\ error' = Some(MsgEnterTerm)
         /\ UNCHANGED <<results, isLoading, searchQuery, selectedCategory, selectedPOI,
                        mapBounds, mapCenter, categoryOrder, lastRequestTime, clock,
                        calls, lastDispatch, delivered, nPromotes>>
    ELSE /\ searchQuery' = query
         /\ selectedCategory' = category
         /\ isLoading' = TRUE
         /\ error' = Null
         /\ results' = <<>>
         /\ selectedPOI' = Null
         /\ categoryOrder' = IF category # "" THEN promoteCategory(categoryOrder, category)
                             ELSE categoryOrder
         /\ calls' = Append(calls, NewCall("searchPOI", "search", query, category,
                                           Null, Null,
                                           Some(SearchPOIUrl(query, category, 20, Null))))
         /\ lastRequestTime' = LastRequestTimeAfterBegin
         /\ lastDispatch' = LastDispatchAfterBegin
         /\ UNCHANGED <<mapBounds, mapCenter, clock, delivered, nPromotes>>

\* lines 56-78, up to the first suspension: the guard, the reset, the promotion,
\* and searchPOI with rateLimitedFetch down to its timer or its fetch
search(query, category) ==
    IF SearchGuardRejects(query)
    THEN /\ error' = Some(MsgEnterTerm)
         /\ UNCHANGED <<results, isLoading, searchQuery, selectedCategory, selectedPOI,
                        mapBounds, mapCenter, categoryOrder, lastRequestTime, clock,
                        calls, lastDispatch, delivered, nPromotes>>
    ELSE /\ searchQuery' = query
         /\ selectedCategory' = category
         /\ isLoading' = TRUE
         /\ error' = Null
         /\ results' = <<>>
         /\ selectedPOI' = Null
         /\ categoryOrder' = IF category # "" THEN promoteCategory(categoryOrder, category)
                             ELSE categoryOrder
         /\ calls' = Append(calls, NewCall("searchPOI", "search", query, category,
                                           mapBounds, Null,
                                           Some(SearchPOIUrl(query, category, 20, mapBounds))))
         /\ lastRequestTime' = LastRequestTimeAfterBegin
         /\ lastDispatch' = LastDispatchAfterBegin
         /\ UNCHANGED <<mapBounds, mapCenter, clock, delivered, nPromotes>>

\* lines 95-116, up to the first suspension
searchCategory(category) ==
    IF CategoryGuardRejects(category)
    THEN /\ error' = Some(MsgSelectCat)
         /\ UNCHANGED <<results, isLoading, searchQuery, selectedCategory, selectedPOI,
                        mapBounds, mapCenter, categoryOrder, lastRequestTime, clock,
                        calls, lastDispatch, delivered, nPromotes>>
    ELSE /\ selectedCategory' = category
         /\ searchQuery' = <<>>
         /\ isLoading' = TRUE
         /\ error' = Null
         /\ results' = <<>>
         /\ selectedPOI' = Null
         /\ categoryOrder' = promoteCategory(categoryOrder, category)
         /\ calls' = Append(calls, NewCall("searchByCategory", "searchCategory",
                                           <<>>, category, mapBounds, mapCenter,
                                           Some(SearchByCategoryUrl(category, 20, mapBounds))))
         /\ lastRequestTime' = LastRequestTimeAfterBegin
         /\ lastDispatch' = LastDispatchAfterBegin
         /\ UNCHANGED <<mapBounds, mapCenter, clock, delivered, nPromotes>>

\* lines 134-136
selectPOI(poi) ==
    /\ selectedPOI' = Some(poi)
    /\ UNCHANGED <<results, isLoading, error, searchQuery, selectedCategory, mapBounds,
                   mapCenter, categoryOrder, lastRequestTime, clock, calls, lastDispatch, delivered, nPromotes>>

\* lines 141-143
clearSelection ==
    /\ selectedPOI' = Null
    /\ UNCHANGED <<results, isLoading, error, searchQuery, selectedCategory, mapBounds,
                   mapCenter, categoryOrder, lastRequestTime, clock, calls, lastDispatch, delivered, nPromotes>>

\* faulty variants of clearSearch: one that forgets error, one that forgets the
\* selection
clearSearchKeepsError ==
    /\ results' = <<>>
    /\ searchQuery' = <<>>
    /\ selectedCategory' = ""
    /\ selectedPOI' = Null
    /\ UNCHANGED <<error, isLoading, mapBounds, mapCenter, categoryOrder, lastRequestTime,
                   clock, calls, lastDispatch, delivered, nPromotes>>

clearSearchKeepsSelection ==
    /\ results' = <<>>
    /\ error' = Null
    /\ searchQuery' = <<>>
    /\ selectedCategory' = ""
    /\ UNCHANGED <<selectedPOI, isLoading, mapBounds, mapCenter, categoryOrder,
                   lastRequestTime, clock, calls, lastDispatch, delivered, nPromotes>>

\* faulty variant: the category order is reset with the rest
clearSearchResetsOrder ==
    /\ results' = <<>>
    /\ error' = Null
    /\ searchQuery' = <<>>
    /\ selectedCategory' = ""
    /\ selectedPOI' = Null
    /\ categoryOrder' = InitialCategoryOrder
    /\ UNCHANGED <<isLoading, mapBounds, mapCenter, lastRequestTime,
                   clock, calls, lastDispatch, delivered, nPromotes>>

\* variant of clearSearch that cancels: the outstanding requests of the
\* coordinator are abandoned and isLoading is reset
clearSearchCancelsRequests ==
    /\ results' = <<>>
    /\ error' = Null
    /\ searchQuery' = <<>>
    /\ selectedCategory' = ""
    /\ selectedPOI' = Null
    /\ isLoading' = FALSE
    /\ calls' = [i \in 1..Len(calls) |->
                   IF calls[i].caller # "direct" /\ calls[i].pc # "done"
                   THEN [calls[i] EXCEPT !.pc = "done", !.due = 0,
                                            !.outcome = "rejected"]
                   ELSE calls[i]]
    /\ UNCHANGED <<mapBounds, mapCenter, categoryOrder, lastRequestTime,
                   clock, lastDispatch, delivered, nPromotes>>

\* lines 148-154
clearSearch ==
    /\ results' = <<>>
    /\ error' = Null
    /\ searchQuery' = <<>>
    /\ selectedCategory' = ""
    /\ selectedPOI' = Null
    /\ UNCHANGED <<isLoading, mapBounds, mapCenter, categoryOrder, lastRequestTime,
                   clock, calls, lastDispatch, delivered, nPromotes>>

\* promoteCategory called through the object useSearch returns (line 174)
PromoteCategoryCall(categoryKey) ==
    /\ categoryOrder' = promoteCategory(categoryOrder, categoryKey)
    /\ UNCHANGED <<results, isLoading, error, searchQuery, selectedCategory, selectedPOI,
                   mapBounds, mapCenter, lastRequestTime, clock, calls, lastDispatch, delivered, nPromotes>>

\* the same call, counted: the steps of PromoteSpec
CountedPromoteCategoryCall(categoryKey) ==
    /\ nPromotes < MaxPromotes
    /\ categoryOrder' = promoteCategory(categoryOrder, categoryKey)
    /\ nPromotes' = nPromotes + 1
    /\ UNCHANGED <<results, isLoading, error, searchQuery, selectedCategory, selectedPOI,
                   mapBounds, mapCenter, lastRequestTime, clock, calls, lastDispatch, delivered>>

-----------------------------------------------------------------------------
(* What the coordinator does when the API call it awaits settles *)

\* faulty variant: an empty result list is not reported
SearchResolvedErrorSilent(data) == error

\* lines 79-83: error after searchPOI resolved with data
SearchResolvedError(data) ==
    IF Len(data) = 0 THEN Some(MsgNoResults) ELSE error

\* lines 117-122: error after searchByCategory resolved with data; reading
\* .toLowerCase() of an undefined label throws, which the catch block handles
CategoryResolvedError(category, data) ==
    IF Len(data) = 0
    THEN LET catLabel == CategoryLookup(category).label
         IN  IF catLabel = UndefinedText THEN Some(MsgFailed)
             ELSE Some(NoCategoryResultsMessage(catLabel))
    ELSE error

\* faulty variant of the catch blocks: the message of the caught error is shown
RejectedErrorShowsCause == Some(<<"Nominatim API error: ", "5", "0", "0">>)

\* lines 84-86 and 123-125
RejectedError == Some(MsgFailed)

\* faulty variant of the finally blocks: isLoading is not reset
LoadingAfterSettleStuck == isLoading

\* variant of the finally blocks: isLoading is reset only by the last of the
\* outstanding requests
LoadingAfterSettleWhileOthersPending ==
    Cardinality({j \in 1..Len(calls) : calls[j].pc # "done"}) > 1

\* lines 87-89 and 126-128
LoadingAfterSettle == FALSE

\* faulty variant: the success path without the finally block
CoordinatorResolvedWithoutFinally(c, data) ==
    IF c.caller = "direct" THEN UNCHANGED coordVars
    ELSE /\ results' = data
         /\ error' = IF c.caller = "search" THEN SearchResolvedError(data)
                     ELSE CategoryResolvedError(c.category, data)
         /\ UNCHANGED <<isLoading, searchQuery, selectedCategory, selectedPOI, mapBounds,
                        mapCenter, categoryOrder>>

\* the continuation of search / searchCategory after its await, for call c
CoordinatorResolved(c, data) ==
    IF c.caller = "direct" THEN UNCHANGED coordVars
    ELSE /\ results' = data
         /\ error' = IF c.caller = "search" THEN SearchResolvedError(data)
                     ELSE CategoryResolvedError(c.category, data)
         /\ isLoading' = LoadingAfterSettle
         /\ UNCHANGED <<searchQuery, selectedCategory, selectedPOI, mapBounds, mapCenter,
                        categoryOrder>>

\* faulty variant: the failure path without the finally block
CoordinatorRejectedWithoutFinally(c) ==
    IF c.caller = "direct" THEN UNCHANGED coordVars
    ELSE /\ error' = RejectedError
         /\ UNCHANGED <<isLoading, results, searchQuery, selectedCategory, selectedPOI,
                        mapBounds, mapCenter, categoryOrder>>

\* faulty variant: a failed request takes the promotion of its category back
CoordinatorRejectedUndoesPromotion(c) ==
    IF c.caller = "direct" THEN UNCHANGED coordVars
    ELSE /\ error' = RejectedError
         /\ isLoading' = LoadingAfterSettle
         /\ categoryOrder' = InitialCategoryOrder
         /\ UNCHANGED <<results, searchQuery, selectedCategory, selectedPOI, mapBounds,
                        mapCenter>>

CoordinatorRejected(c) ==
    IF c.caller = "direct" THEN UNCHANGED coordVars
    ELSE /\ error' = RejectedError
         /\ isLoading' = LoadingAfterSettle
         /\ UNCHANGED <<results, searchQuery, selectedCategory, selectedPOI, mapBounds,
                        mapCenter, categoryOrder>>

-----------------------------------------------------------------------------
(* The API client below the coordinator: timers and responses *)

\* Time is read only by rateLimitedFetch (Date.now()) and by its timers: the
\* clock matters while a timer is not yet due or the interval since the last
\* dispatch has not elapsed
TimeMatters ==
    \/ clock - lastRequestTime < MIN_REQUEST_INTERVAL
    \/ \E i \in 1..Len(calls) : calls[i].pc = "timer" /\ clock < calls[i].due

\* the clock advances
Tick ==
    /\ TimeMatters
    /\ clock' = clock + TickStep
    /\ UNCHANGED <<coordVars, lastRequestTime, calls, lastDispatch, delivered, nPromotes>>

\* variant of the timer order in which a waiting caller is held back while the
\* request of another caller is outstanding
TimerIsNextWhenNoneOutstanding(i) ==
    /\ calls[i].pc = "timer"
    /\ clock >= calls[i].due
    /\ \A j \in 1..Len(calls) : calls[j].pc # "fetch"

\* the event loop runs due timers in the order of their due times
TimerIsNext(i) ==
    /\ calls[i].pc = "timer"
    /\ clock >= calls[i].due
    /\ \A j \in 1..Len(calls) :
          calls[j].pc = "timer" =>
             \/ calls[j].due > calls[i].due
             \/ (calls[j].due = calls[i].due /\ j >= i)

\* lines 216-220: the timer of call i fires; it stamps lastRequestTime and
\* calls fetch
TimerFires(i) ==
    /\ TimerIsNext(i)
    /\ lastRequestTime' = clock
    /\ calls' = [calls EXCEPT ![i].pc = "fetch", ![i].due = 0]
    /\ lastDispatch' = Some(clock)
    /\ UNCHANGED <<coordVars, clock, delivered, nPromotes>>

\* the record of call c once its promise has settled and its awaiter has run
Settled(c, outcome) ==
    [fn |-> c.fn, caller |-> c.caller, query |-> <<>>, category |-> "",
     viewbox |-> Null, center |-> Null, url |-> Null,
     pc |-> "done", due |-> 0, outcome |-> outcome, value |-> <<>>]

\* what a direct caller receives
Delivery(i, c, outcome, value) ==
    IF c.caller = "direct"
    THEN [call |-> i, fn |-> c.fn, outcome |-> outcome, value |-> value]
    ELSE delivered

\* variant of the error of a response that is not OK: the status left out
HttpErrorMessageWithoutStatus(status) == <<"Nominatim API error">>

\* lines 226-228
HttpErrorMessage(status) == <<"Nominatim API error: ">> \o NumText(status)

\* variant of the transport failure in which the failed request is issued
\* again instead of being reported
FetchFailsAndRetries(i) ==
    /\ calls[i].pc = "fetch"
    /\ calls' = Append([calls EXCEPT ![i] = Settled(calls[i], "rejected")], calls[i])
    /\ UNCHANGED <<coordVars, lastRequestTime, clock, lastDispatch, delivered, nPromotes>>

\* fetch rejects (transport failure): the call rejects
FetchFails(i) ==
    /\ calls[i].pc = "fetch"
    /\ calls' = [calls EXCEPT ![i] = Settled(calls[i], "rejected")]
    /\ delivered' = Delivery(i, calls[i], "rejected", <<"TypeError: Failed to fetch">>)
    /\ CoordinatorRejected(calls[i])
    /\ UNCHANGED <<lastRequestTime, clock, lastDispatch, nPromotes>>

\* lines 226-228: a response whose status is not OK
FetchHttpError(i, status) ==
    /\ calls[i].pc = "fetch"
    /\ calls' = [calls EXCEPT ![i] = Settled(calls[i], "rejected")]
    /\ delivered' = Delivery(i, calls[i], "rejected", HttpErrorMessage(status))
    /\ CoordinatorRejected(calls[i])
    /\ UNCHANGED <<lastRequestTime, clock, lastDispatch, nPromotes>>

\* what the API function returns for a decoded body: lines 278, 326, 344
ApiResult(c, body) ==
    IF c.fn = "reverseGeocode" THEN body ELSE NormalizeAll(body, c.category)

\* lines 220-230: an OK response whose body response.json() decodes; nothing
\* the program can observe happens between the two awaits
ResponseOk(i, body) ==
    /\ calls[i].pc = "fetch"
    /\ calls' = [calls EXCEPT ![i] = Settled(calls[i], "resolved")]
    /\ delivered' = Delivery(i, calls[i], "resolved", ApiResult(calls[i], body))
    /\ CoordinatorResolved(calls[i], ApiResult(calls[i], body))
    /\ UNCHANGED <<lastRequestTime, clock, lastDispatch, nPromotes>>

\* lines 220-230: an OK response whose body is not JSON: response.json() rejects
ResponseMalformed(i) ==
    /\ calls[i].pc = "fetch"
    /\ calls' = [calls EXCEPT ![i] = Settled(calls[i], "rejected")]
    /\ delivered' = Delivery(i, calls[i], "rejected", <<"SyntaxError">>)
    /\ CoordinatorRejected(calls[i])
    /\ UNCHANGED <<lastRequestTime, clock, lastDispatch, nPromotes>>

-----------------------------------------------------------------------------
(* The API client called directly *)

\* lines 242-279, up to the first suspension
searchPOI(query, category, viewbox) ==
    /\ calls' = Append(calls, NewCall("searchPOI", "direct", query, category, viewbox, Null,
                                      Some(SearchPOIUrl(query, category, 20, viewbox))))
    /\ lastRequestTime' = LastRequestTimeAfterBegin
    /\ lastDispatch' = LastDispatchAfterBegin
    /\ UNCHANGED <<coordVars, clock, delivered, nPromotes>>

\* lines 289-327, up to the first suspension; an invalid category rejects
\* before rateLimitedFetch is reached
searchByCategory(category, viewbox, center) ==
    /\ IF ApiCategoryInvalid(category)
       THEN /\ calls' = Append(calls, FailedCall("searchByCategory", "direct"))
            /\ delivered' = [call |-> Len(calls) + 1, fn |-> "searchByCategory",
                             outcome |-> "rejected", value |-> <<"Invalid category">>]
            /\ UNCHANGED <<lastRequestTime, lastDispatch>>
       ELSE /\ calls' = Append(calls, NewCall("searchByCategory", "direct", <<>>, category,
                                              viewbox, center,
                                              Some(SearchByCategoryUrl(category, 20, viewbox))))
            /\ lastRequestTime' = LastRequestTimeAfterBegin
            /\ lastDispatch' = LastDispatchAfterBegin
            /\ UNCHANGED delivered
    /\ UNCHANGED <<coordVars, clock, nPromotes>>

\* lines 335-345, up to the first suspension
reverseGeocode(lat, lon) ==
    /\ calls' = Append(calls, NewCall("reverseGeocode", "direct", <<>>, "", Null,
                                      Some([lat |-> lat, lng |-> lon]),
                                      Some(ReverseGeocodeUrl(lat, lon))))
    /\ lastRequestTime' = LastRequestTimeAfterBegin
    /\ lastDispatch' = LastDispatchAfterBegin
    /\ UNCHANGED <<coordVars, clock, delivered, nPromotes>>

-----------------------------------------------------------------------------
(* Specifications *)

\* records selectPOI may be handed: an element of results, or a record that is
\* in no result list
SelectablePOIs == {results[i] : i \in 1..Len(results)} \cup {ForeignPOI}

\* no API call is outstanding
Idle == \A i \in 1..Len(calls) : calls[i].pc = "done"

\* a guard-rejected invocation makes no API call and needs no call slot
MaySearch(query, max) == SearchGuardRejects(query) \/ Len(calls) < max
MaySearchCategory(category, max) == CategoryGuardRejects(category) \/ Len(calls) < max

\* The application driven by its user interface, on every input of the model:
\* up to MaxCalls API calls per behaviour, each started after the one before
\* has settled
Next ==
    \/ \E v \in ViewportInputs : updateMapViewport(v[1], v[2])
    \/ \E q \in Queries, c \in InputCategories :
          MaySearch(q, IF Idle THEN MaxCalls ELSE 0) /\ search(q, c)
    \/ \E c \in InputCategories : MaySearchCategory(c, IF Idle THEN MaxCalls ELSE 0) /\ searchCategory(c)
    \/ \E c \in InputCategories : PromoteCategoryCall(c)
    \/ \E poi \in SelectablePOIs : selectPOI(poi)
    \/ clearSelection
    \/ clearSearch
    \/ Tick
    \/ \E i \in 1..Len(calls) : TimerFires(i)
    \/ \E i \in 1..Len(calls) : FetchFails(i)
    \/ \E i \in 1..Len(calls), status \in HttpErrorStatuses : FetchHttpError(i, status)
    \/ \E i \in 1..Len(calls), body \in Payloads : ResponseOk(i, body)
    \/ \E i \in 1..Len(calls) : ResponseMalformed(i)

Spec == Init /\ [][Next]_vars

\* Overlapping requests: searches started while earlier ones are outstanding,
\* up to MaxOverlap API calls per behaviour
OverlapNext ==
    \/ \E q \in {Spaces, Pizza}, c \in {"", "cafe"} :
          MaySearch(q, MaxOverlap) /\ search(q, c)
    \/ \E c \in {"", "cafe"} : MaySearchCategory(c, MaxOverlap) /\ searchCategory(c)
    \/ clearSearch
    \/ Tick
    \/ \E i \in 1..Len(calls) : TimerFires(i)
    \/ \E i \in 1..Len(calls) : FetchFails(i)
    \/ \E i \in 1..Len(calls), status \in HttpErrorStatuses : FetchHttpError(i, status)
    \/ \E i \in 1..Len(calls), body \in Payloads : ResponseOk(i, body)
    \/ \E i \in 1..Len(calls) : ResponseMalformed(i)

OverlapSpec == Init /\ [][OverlapNext]_vars

\* The rate limiter under overlapping callers of the API client, up to
\* MaxFetches calls per behaviour, before any response arrives
RateNext ==
    \/ Len(calls) < MaxFetches /\ searchPOI(Pizza, "", Null)
    \/ \E c \in {"cafe", "invalid"} :
          Len(calls) < MaxFetches /\ searchByCategory(c, Some(Bounds1), Some(Center1))
    \/ Len(calls) < MaxFetches /\ reverseGeocode(52, 13)
    \/ Tick
    \/ \E i \in 1..Len(calls) : TimerFires(i)

RateSpec == Init /\ [][RateNext]_vars

\* The rate limiter under overlapping callers with the scheduling the event
\* loop provides: time passes, and a timer that is due is run (setTimeout
\* callbacks are macrotasks; no task of the program runs forever)
FairRateSpec ==
    /\ Init /\ [][RateNext]_vars
    /\ WF_vars(Tick)
    /\ WF_vars(\E i \in 1..Len(calls) : TimerFires(i))

\* no caller is suspended in the rate-limit wait
NoCallWaiting == \A i \in 1..Len(calls) : calls[i].pc # "timer"

\* The rate limiter under callers that do not overlap: each call begins after
\* the call before it has been dispatched; up to MaxFetches calls per behaviour
SerialRateNext ==
    \/ NoCallWaiting /\ Len(calls) < MaxFetches /\ searchPOI(Pizza, "", Null)
    \/ \E c \in {"cafe", "invalid"} :
          NoCallWaiting /\ Len(calls) < MaxFetches
             /\ searchByCategory(c, Some(Bounds1), Some(Center1))
    \/ NoCallWaiting /\ Len(calls) < MaxFetches /\ reverseGeocode(52, 13)
    \/ Tick
    \/ \E i \in 1..Len(calls) : TimerFires(i)

SerialRateSpec == Init /\ [][SerialRateNext]_vars

\* Selection under overlapping searches: selectPOI is handed elements of the
\* current results only; up to MaxOverlap API calls per behaviour
SelectionNext ==
    \/ \E c \in {"", "cafe"} : Len(calls) < MaxOverlap /\ search(Pizza, c)
    \/ \E i \in 1..Len(results) : selectPOI(results[i])
    \/ clearSelection
    \/ clearSearch
    \/ Tick
    \/ \E i \in 1..Len(calls) : TimerFires(i)
    \/ \E i \in 1..Len(calls) : FetchFails(i)
    \/ \E i \in 1..Len(calls), body \in Payloads : ResponseOk(i, body)

SelectionSpec == Init /\ [][SelectionNext]_vars

\* promoteCategory alone, on every key and on arguments that are no key
PromoteArguments == KeySet \cup {"", "invalid", "constructor"}

PromoteNext == \E k \in PromoteArguments : CountedPromoteCategoryCall(k)

PromoteSpec == Init /\ [][PromoteNext]_vars

\* the category argument of the searches whose order of use is followed: for
\* search two keys of the table, no category and an unknown key, for
\* searchCategory two keys of the table
MruCategories == {"", "cafe", "park", "invalid"}
MruCategoryKeys == {"hotel", "park"}

\* The category list under a sequence of searches: up to MaxUses guard-passing
\* invocations per behaviour, none of them answered, so that the list of calls
\* is the record of the categories used, oldest first
MruNext ==
    \/ \E c \in MruCategories : Len(calls) < MaxUses /\ search(Pizza, c)
    \/ \E c \in MruCategoryKeys : Len(calls) < MaxUses /\ searchCategory(c)
    \/ Tick
    \/ \E i \in 1..Len(calls) : TimerFires(i)

MruSpec == Init /\ [][MruNext]_vars

\* Normalisation of the upstream items: searchPOI answered by one item with
\* every address of the model; up to MaxNormalized calls per behaviour, each
\* started after the one before has settled
NormalizeNext ==
    \/ \E c \in {"", "cafe"} :
          Idle /\ Len(calls) < MaxNormalized /\ searchPOI(Pizza, c, Null)
    \/ Tick
    \/ \E i \in 1..Len(calls) : TimerFires(i)
    \/ \E i \in 1..Len(calls), a \in AddressInputs : ResponseOk(i, <<RawWithAddress(a)>>)

NormalizeSpec == Init /\ [][NormalizeNext]_vars

\* the category hints searchPOI is called with: the empty string (what search
\* passes by default), undefined (no category option), two keys of the table,
\* an unknown key and a name inherited from Object.prototype
DetectHints == {"", UNDEFINED, "cafe", "park", "invalid", "constructor"}

\* the types of the items upstream returns: one per tag dimension of the
\* table (amenity, tourism, leisure, shop) and two that no category carries
ItemTypes == {"cafe", "hotel", "museum", "park", "supermarket", "bakery", "yes"}

RawWithType(t) == [RawCafe EXCEPT !.type = t]

\* Category detection: searchPOI called with every hint and answered by one
\* item of every type; up to MaxDetected calls per behaviour, each started
\* after the one before has settled
DetectNext ==
    \/ \E c \in DetectHints :
          Idle /\ Len(calls) < MaxDetected /\ searchPOI(Pizza, c, Null)
    \/ Tick
    \/ \E i \in 1..Len(calls) : TimerFires(i)
    \/ \E i \in 1..Len(calls), t \in ItemTypes : ResponseOk(i, <<RawWithType(t)>>)

DetectSpec == Init /\ [][DetectNext]_vars

\* the statuses of the responses that are not OK, for the API client called
\* directly: not found, too many requests, server error
ApiHttpStatuses == HttpErrorStatuses \cup {404, 429}

\* The API client called directly, on every category and viewbox of the model,
\* with every kind of response: up to MaxApiCalls calls per behaviour, each
\* started after the one before has settled
ApiNext ==
    \/ \E c \in ApiCategories, v \in ApiViewboxes :
          Idle /\ Len(calls) < MaxApiCalls /\ searchPOI(Pizza, c, v)
    \/ \E c \in ApiCategories, v \in ApiViewboxes :
          Idle /\ Len(calls) < MaxApiCalls /\ searchByCategory(c, v, Some(Center1))
    \/ Idle /\ Len(calls) < MaxApiCalls /\ reverseGeocode(52, 13)
    \/ Tick
    \/ \E i \in 1..Len(calls) : TimerFires(i)
    \/ \E i \in 1..Len(calls) : FetchFails(i)
    \/ \E i \in 1..Len(calls), status \in ApiHttpStatuses : FetchHttpError(i, status)
    \/ \E i \in 1..Len(calls), body \in Payloads : ResponseOk(i, body)
    \/ \E i \in 1..Len(calls) : ResponseMalformed(i)

ApiSpec == Init /\ [][ApiNext]_vars

-----------------------------------------------------------------------------
(* Properties: the rate limiter *)

\* call i is dispatched in this step: fetch is called for it
Dispatched(i) ==
    /\ calls'[i].pc = "fetch"
    /\ (i > Len(calls) \/ calls[i].pc = "timer")

\* C1: any two requests dispatched through rateLimitedFetch, by overlapping
\* callers in any interleaving, have dispatch times (the moments fetch is
\* called) at least 1000 ms apart: every step that calls fetch is taken at
\* least 1000 ms after the previous call of fetch.
C1_DispatchesSpaced ==
    [][(\E i \in 1..Len(calls') : Dispatched(i)) /\ lastDispatch # Null
          => clock' - lastDispatch[1] >= 1000]_vars

\* two callers suspended in the rate-limit wait that will wake at the same time
C1_Witness_TwoTimersSameDue ==
    \E i, j \in 1..Len(calls) :
        /\ i < j
        /\ calls[i].pc = "timer" /\ calls[j].pc = "timer"
        /\ calls[i].due = calls[j].due

-----------------------------------------------------------------------------
(* Properties: the category order *)

\* C2: in every reachable state categoryOrder is a permutation of the fixed
\* category key set: no key is added, removed or duplicated.
C2_CategoryOrderIsPermutation ==
    /\ Len(categoryOrder) = Cardinality(KeySet)
    /\ {categoryOrder[i] : i \in 1..Len(categoryOrder)} = KeySet

\* a search has settled with results after the order was changed
C2_Witness_ReorderedAfterSearch ==
    /\ categoryOrder # InitialCategoryOrder
    /\ results # <<>>
    /\ selectedPOI # Null

\* the order without key k
WithoutKey(order, k) == SelectSeq(order, LAMBDA x : x # k)

\* C3: for every order held in categoryOrder and every key K of the fixed set,
\* promoteCategory(K) yields an order with K at index 0 in which every other
\* key keeps its relative order with respect to all other keys.
C3_PromoteMovesKeyToFront ==
    [][\A k \in KeySet :
          CountedPromoteCategoryCall(k) =>
             /\ categoryOrder'[1] = k
             /\ WithoutKey(categoryOrder', k) = WithoutKey(categoryOrder, k)]_vars

\* one promotion has moved a key from the middle of the order to the front
C3_Witness_CafePromoted ==
    /\ nPromotes = 1
    /\ categoryOrder = <<"cafe", "restaurant", "hotel", "park", "hospital", "pharmacy",
                         "fuel", "bank", "atm", "supermarket", "museum", "parking">>

\* C4: promoteCategory is a no-op for the key at index 0, for a key absent
\* from categoryOrder and for the empty key, and it is idempotent: promoting
\* the same key again gives the order that promoting it once gave.
C4_PromoteNoOpAndIdempotent ==
    [][\A k \in PromoteArguments :
          CountedPromoteCategoryCall(k) =>
             /\ (k = categoryOrder[1] \/ k \notin KeySet) => categoryOrder' = categoryOrder
             /\ promoteCategory(categoryOrder', k) = categoryOrder']_vars

\* promotions have been made and the last one found its key at the front
C4_Witness_PromotedTwice ==
    /\ nPromotes = 2
    /\ categoryOrder[1] = "museum"
    /\ categoryOrder[2] = "restaurant"

-----------------------------------------------------------------------------
(* Properties: search *)

\* C5: search(query, category) with an empty or whitespace-only query never
\* invokes the API client and sets error to exactly "Please enter a search term".
C5_BlankQueryRejected ==
    [][\A q \in {Empty, Spaces}, c \in InputCategories :
          search(q, c) =>
             /\ error' = Some(<<"Please enter a search term">>)
             /\ calls' = calls
             /\ lastDispatch' = lastDispatch]_vars

\* a blank query was rejected before any API call was made
C5_Witness_BlankRejected ==
    /\ error = Some(<<"Please enter a search term">>)
    /\ calls = <<>>

\* C6: when the API call of a search with a non-empty query resolves with N > 0
\* items, then once the call has settled results is exactly those N items in
\* the same order and error is null.
C6_SearchSuccessLeavesNoError ==
    [][\A i \in 1..Len(calls), body \in Payloads :
          (calls[i].caller = "search" /\ Len(body) > 0 /\ ResponseOk(i, body)) =>
             /\ results' = NormalizeAll(body, calls[i].category)
             /\ error' = Null]_vars

\* a search has settled with results while error holds a message
C6_Witness_ResultsWithError ==
    /\ results # <<>>
    /\ error # Null
    /\ ~isLoading

\* C7: when the API call of a search with a non-empty query resolves with an
\* empty list, then once the call has settled error is exactly "No results
\* found. Try a different search term." and results is empty.
C7_SearchEmptyReported ==
    [][\A i \in 1..Len(calls) :
          (calls[i].caller = "search" /\ ResponseOk(i, <<>>)) =>
             /\ error' = Some(<<"No results found. Try a different search term.">>)
             /\ results' = <<>>]_vars

\* a search has settled with the empty-result message
C7_Witness_NoResults ==
    /\ error = Some(<<"No results found. Try a different search term.">>)
    /\ results = <<>>
    /\ ~isLoading
    /\ \E i \in 1..Len(calls) : calls[i].caller = "search" /\ calls[i].outcome = "resolved"

\* the display labels of the category table, lowercased
LowerCasedLabel(k) ==
    CASE k = "restaurant" -> <<"r","e","s","t","a","u","r","a","n","t","s">>
      [] k = "hotel" -> <<"h","o","t","e","l","s">>
      [] k = "cafe" -> <<"c","a","f","e","s">>
      [] k = "park" -> <<"p","a","r","k","s">>
      [] k = "hospital" -> <<"h","o","s","p","i","t","a","l","s">>
      [] k = "pharmacy" -> <<"p","h","a","r","m","a","c","i","e","s">>
      [] k = "fuel" -> <<"g","a","s"," ","s","t","a","t","i","o","n","s">>
      [] k = "bank" -> <<"b","a","n","k","s">>
      [] k = "atm" -> <<"a","t","m","s">>
      [] k = "supermarket" -> <<"s","u","p","e","r","m","a","r","k","e","t","s">>
      [] k = "museum" -> <<"m","u","s","e","u","m","s">>
      [] k = "parking" -> <<"p","a","r","k","i","n","g">>

\* C8: when the API call of searchCategory(category) for a known category
\* resolves with an empty list, error becomes "No <label lowercased> found in
\* this area. Try panning the map." ("No cafes found in this area..." for
\* cafe) and results is empty.
C8_CategoryEmptyReported ==
    [][\A i \in 1..Len(calls) :
          (/\ calls[i].caller = "searchCategory"
           /\ calls[i].category \in KeySet
           /\ ResponseOk(i, <<>>)) =>
             /\ error' = Some(<<"No ">> \o LowerCasedLabel(calls[i].category)
                                 \o <<" found in this area. Try panning the map.">>)
             /\ results' = <<>>]_vars

\* a category search for cafe has settled with its empty-result message
C8_Witness_NoCafes ==
    /\ error = Some(<<"No ", "c", "a", "f", "e", "s",
                      " found in this area. Try panning the map.">>)
    /\ results = <<>>
    /\ ~isLoading

\* call i rejects in this step
Rejects(i) ==
    /\ calls[i].pc = "fetch"
    /\ calls'[i].pc = "done"
    /\ calls'[i].outcome = "rejected"

\* the texts of the errors the API client rejects with
UnderlyingErrorTexts ==
    {HttpErrorMessage(status) : status \in HttpErrorStatuses}
       \cup {<<"TypeError: Failed to fetch">>, <<"SyntaxError">>, <<"Invalid category">>}

\* C9: when the API call of a search or searchCategory rejects (HTTP status not
\* OK or transport failure), the invocation settles with error exactly "Search
\* failed. Please try again." and isLoading false; the text of the underlying
\* error is never placed in error.
C9_RejectionFolded ==
    /\ [][\A i \in 1..Len(calls) :
             (calls[i].caller \in {"search", "searchCategory"} /\ Rejects(i)) =>
                /\ error' = Some(<<"Search failed. Please try again.">>)
                /\ isLoading' = FALSE]_vars
    /\ [](\A text \in UnderlyingErrorTexts : error # Some(text))

\* an invocation has settled by rejection with the generic message
C9_Witness_SearchFailed ==
    /\ error = Some(<<"Search failed. Please try again.">>)
    /\ ~isLoading
    /\ \E i \in 1..Len(calls) : calls[i].outcome = "rejected"

\* C10: searchCategory(category) with an empty category or a category that is
\* not a key of the fixed category table sets error to exactly "Please select a
\* category" and never invokes the API client.
C10_UnknownCategoryRejected ==
    [][\A c \in InputCategories \ KeySet :
          searchCategory(c) =>
             /\ error' = Some(<<"Please select a category">>)
             /\ calls' = calls]_vars

\* the API client was invoked by searchCategory for a name that is no key of
\* the category table
C10_Witness_UnknownCategoryRequested ==
    \E i \in 1..Len(calls) :
        /\ calls[i].caller = "searchCategory"
        /\ calls[i].category \notin KeySet
        /\ calls[i].pc = "fetch"

-----------------------------------------------------------------------------
(* Properties: clearing, loading and settling *)

\* C11: from any reachable state, clearSearch() leaves results = [], error =
\* null, selected = null, searchQuery = '' and selectedCategory = '', and leaves
\* categoryOrder, mapBounds and mapCenter unchanged.
C11_ClearSearchResets ==
    [][clearSearch =>
          /\ results' = <<>>
          /\ error' = Null
          /\ selectedPOI' = Null
          /\ searchQuery' = <<>>
          /\ selectedCategory' = ""
          /\ categoryOrder' = categoryOrder
          /\ mapBounds' = mapBounds
          /\ mapCenter' = mapCenter]_vars

\* every API call has settled, yet there is neither a result nor an error:
\* the state a clearSearch after a settled search leaves, with the viewport and
\* the promoted category order still in place
C11_Witness_ClearedAfterSearch ==
    /\ Len(calls) > 0 /\ Idle
    /\ results = <<>> /\ error = Null /\ selectedPOI = Null
    /\ searchQuery = <<>> /\ selectedCategory = ""
    /\ categoryOrder # InitialCategoryOrder
    /\ mapBounds # Null

\* call i of the coordinator settles in this step
Settles(i) ==
    /\ calls[i].caller \in {"search", "searchCategory"}
    /\ calls[i].pc = "fetch"
    /\ calls'[i].pc = "done"

\* an invocation of search or searchCategory is turned away by its guard in
\* this step
GuardRejection ==
    \/ \E q \in Queries, c \in InputCategories : SearchGuardRejects(q) /\ search(q, c)
    \/ \E c \in InputCategories : CategoryGuardRejects(c) /\ searchCategory(c)

\* C12: whenever a coordinator operation settles (by guard rejection, success
\* or failure, in any interleaving of invocations), isLoading and a non-null
\* error do not hold together.
C12_NotLoadingWithError ==
    [][(GuardRejection \/ \E i \in 1..Len(calls) : Settles(i))
          => ~(isLoading' /\ error' # Null)]_vars

\* loading while error holds a message
C12_Witness_LoadingWithError ==
    /\ isLoading
    /\ error # Null
    /\ \E i \in 1..Len(calls) : calls[i].pc # "done"

\* the messages that report an empty result list
NoResultsMessages ==
    {<<"No results found. Try a different search term.">>}
       \cup {<<"No ">> \o LowerCasedLabel(k) \o <<" found in this area. Try panning the map.">>
               : k \in KeySet}

\* the state Settled: not loading, and exactly one of results, a no-results
\* message, the generic failure message
SettledState ==
    /\ ~isLoading
    /\ \/ results # <<>> /\ error = Null
       \/ results = <<>> /\ error # Null /\ error[1] \in NoResultsMessages
       \/ results = <<>> /\ error = Some(<<"Search failed. Please try again.">>)

\* C13: whenever no request is outstanding after at least one guard-passing
\* search or searchCategory, for any interleaving of overlapping invocations,
\* the state is Settled: isLoading is false and exactly one of non-empty
\* results without error, empty results with a no-results message, empty
\* results with the generic failure message. Stated for the states in which the
\* last outstanding call has just settled.
C13_SettledWhenNoneOutstanding ==
    [][(\E i \in 1..Len(calls) : Settles(i) /\ \A j \in 1..Len(calls) : calls'[j].pc = "done")
          => SettledState']_vars

\* every call has settled; results of one search stand next to the failure
\* message of another
C13_Witness_ResultsWithFailure ==
    /\ Len(calls) > 0 /\ Idle
    /\ results # <<>>
    /\ error = Some(<<"Search failed. Please try again.">>)

\* a guard-passing search or searchCategory starts in this step: it makes the
\* next API call of the coordinator
Starts ==
    /\ Len(calls') = Len(calls) + 1
    /\ calls'[Len(calls')].caller \in {"search", "searchCategory"}

\* C14: selected is null immediately after every start of a new search (search
\* or searchCategory passing its guard) and immediately after every
\* clearSearch, whatever was selected before.
C14_SelectionClearedOnStartAndClear ==
    [][(Starts \/ clearSearch) => selectedPOI' = Null]_vars

\* a second search has started after the first one returned results, from
\* which a record could be selected, and nothing is selected
C14_Witness_SecondSearchStarted ==
    /\ Len(calls) = 2
    /\ calls[1].outcome = "resolved"
    /\ calls[2].pc # "done"
    /\ isLoading
    /\ selectedPOI = Null

\* C15: provided selectPOI is only ever called with an element of results at
\* the moment of the call, in every reachable state selected is null or an
\* element of the current results, for any interleaving of searches,
\* responses, selections and clears.
C15_SelectedIsAResult ==
    selectedPOI = Null \/ \E i \in 1..Len(results) : results[i] = selectedPOI[1]

\* a record is selected and the current results are those of a later response
C15_Witness_SelectionOutlivesResults ==
    /\ selectedPOI # Null
    /\ Len(calls) = 2 /\ Idle
    /\ \A i \in 1..Len(results) : results[i] # selectedPOI[1]

\* an API call made by the coordinator is outstanding
CoordinatorCallOutstanding ==
    \E i \in 1..Len(calls) :
        calls[i].caller \in {"search", "searchCategory"} /\ calls[i].pc # "done"

\* C16: in every reachable state, isLoading = true implies that at least one
\* API request issued by the coordinator is outstanding (neither resolved nor
\* rejected yet).
C16_LoadingImpliesOutstanding == isLoading => CoordinatorCallOutstanding

\* loading for a second search after the first one has settled
C16_Witness_LoadingSecondCall ==
    /\ isLoading
    /\ Len(calls) = 2
    /\ calls[1].pc = "done"
    /\ calls[2].pc = "timer"

\* C17: every guard-passing search or searchCategory whose API call resolves or
\* rejects sets isLoading to false when it does, on the success path, the
\* empty-result path and the failure path alike; once all outstanding calls
\* have settled isLoading is false.
C17_LoadingResetOnEveryPath ==
    /\ [][\A i \in 1..Len(calls) : Settles(i) => isLoading' = FALSE]_vars
    /\ [](Idle => ~isLoading)

\* two overlapping invocations have settled, one by success and one by
\* failure, and nothing is loading
C17_Witness_BothPathsSettled ==
    /\ Len(calls) = 2 /\ Idle
    /\ calls[1].outcome = "rejected"
    /\ calls[2].outcome = "resolved"
    /\ ~isLoading

\* C18: from the moment a guard-passing search (or searchCategory) is invoked
\* until its own API call settles, isLoading is true; isLoading is false once
\* that call has settled.
C18_LoadingUntilOwnCallSettles ==
    [][/\ \A i \in 1..Len(calls') :
            (calls'[i].caller \in {"search", "searchCategory"} /\ calls'[i].pc # "done")
               => isLoading'
       /\ \A i \in 1..Len(calls) : Settles(i) => ~isLoading']_vars

\* C18, amended: from the moment a guard-passing search (or searchCategory) is
\* invoked, isLoading is true until an API call of the coordinator settles
\* (its own call, when no other invocation is pending); isLoading is false
\* once any call has settled.
C18_LoadingUntilACallSettles ==
    [][/\ Starts => isLoading'
       /\ (isLoading /\ ~isLoading') => \E i \in 1..Len(calls) : Settles(i)
       /\ \A i \in 1..Len(calls) : Settles(i) => ~isLoading']_vars

\* the first of two overlapping searches has settled: nothing is loading while
\* the call of the second is outstanding
C18_Witness_SecondStillOutstanding ==
    /\ Len(calls) = 2
    /\ calls[1].pc = "done"
    /\ calls[2].pc = "fetch"
    /\ ~isLoading

\* the no-results message of the invocation that made call c
NoResultsMessageOf(c) ==
    IF c.caller = "search" THEN <<"No results found. Try a different search term.">>
    ELSE <<"No ">> \o LowerCasedLabel(c.category)
            \o <<" found in this area. Try panning the map.">>

\* C19: when two guard-passing searches overlap, neither is cancelled, both
\* responses are processed, and after both have settled results, isLoading and
\* error are all determined solely by the response that resolved last: its
\* items without error, or no items with its no-results message, or no items
\* with the generic failure message.
C19_LastResponseWins ==
    [][\A i \in 1..Len(calls) :
          (Settles(i) /\ \A j \in 1..Len(calls) : calls'[j].pc = "done") =>
             /\ ~isLoading'
             /\ \/ \E body \in Payloads :
                      /\ ResponseOk(i, body)
                      /\ results' = NormalizeAll(body, calls[i].category)
                      /\ error' = IF body = <<>> THEN Some(NoResultsMessageOf(calls[i]))
                                  ELSE Null
                \/ /\ calls'[i].outcome = "rejected"
                   /\ results' = <<>>
                   /\ error' = Some(<<"Search failed. Please try again.">>)]_vars

\* both of two overlapping searches have settled: the items of the one that
\* resolved last stand next to the failure message of the other
C19_Witness_MixedOutcome ==
    /\ Len(calls) = 2 /\ Idle
    /\ \E i, j \in 1..2 : calls[i].outcome = "rejected" /\ calls[j].outcome = "resolved"
    /\ Len(results) = 2
    /\ error = Some(<<"Search failed. Please try again.">>)
    /\ selectedPOI = Null

-----------------------------------------------------------------------------
(* Properties: the viewport *)

\* C20: updateMapViewport(bounds, center) sets mapBounds and mapCenter to its
\* arguments and changes nothing else (results, isLoading, error, selected,
\* searchQuery, selectedCategory, categoryOrder); called while a request is in
\* flight it starts no request and changes neither the parameters of the
\* in-flight request nor how its response is processed (the call records hold
\* the URL, the viewbox and the category a response is normalised with).
C20_UpdateViewportOnlyAssigns ==
    [][\A v \in ViewportInputs :
          updateMapViewport(v[1], v[2]) =>
             /\ mapBounds' = v[1]
             /\ mapCenter' = v[2]
             /\ UNCHANGED <<results, isLoading, error, selectedPOI, searchQuery,
                            selectedCategory, categoryOrder>>
             /\ calls' = calls
             /\ UNCHANGED <<lastRequestTime, lastDispatch>>]_vars

\* the viewport was set while a request made before, without viewbox, is in
\* flight
C20_Witness_ViewportSetMidLoading ==
    /\ isLoading
    /\ mapBounds = Some(Bounds1)
    /\ mapCenter = Some(Center1)
    /\ \E i \in 1..Len(calls) :
          /\ calls[i].pc = "fetch"
          /\ calls[i].viewbox = Null
          /\ calls[i].url = Some(SearchPOIUrl(Pizza, "cafe", 20, Null))


-----------------------------------------------------------------------------
-----------------------------------------------------------------------------
\* the call a step adds, when the step adds one
CallAdded == Len(calls') = Len(calls) + 1
AddedCall == calls'[Len(calls')]

\* C22: for every viewbox, the request built by searchPOI carries the viewbox
\* parameter as west,south,east,north and does not set the strict bounding
\* flag (bounded is absent or 0, never 1); the request built by
\* searchByCategory with a viewbox carries the same parameter and bounded=1.
C22_ViewboxOrderAndBoundedFlag ==
    [][(CallAdded /\ AddedCall.url # Null /\ AddedCall.viewbox # Null) =>
         LET p == AddedCall.url[1].params
             b == AddedCall.viewbox[1]
         IN  /\ p.viewbox = Some(NumText(b.west) \o <<",">> \o NumText(b.south) \o <<",">>
                                   \o NumText(b.east) \o <<",">> \o NumText(b.north))
             /\ AddedCall.fn = "searchPOI" => p.bounded \in {Null, Some("0")}
             /\ AddedCall.fn = "searchByCategory" => p.bounded = Some("1")]_vars

\* a searchPOI request for the southern box is waiting for its response: it
\* carries viewbox=151,-34,152,-33 and bounded=1
C22_Witness_TextSearchBounded ==
    \E i \in 1..Len(calls) :
       /\ calls[i].fn = "searchPOI" /\ calls[i].pc = "fetch"
       /\ calls[i].viewbox = Some(Bounds2)
       /\ calls[i].url[1].params.viewbox
            = Some(<<"1","5","1",",","-","3","4",",","1","5","2",",","-","3","3">>)
       /\ calls[i].url[1].params.bounded = Some("1")

-----------------------------------------------------------------------------
\* the tag dimension configured for each key of the table (lines 187-200); the
\* configured value is the key itself for every key
ConfiguredDimension(k) ==
    CASE k \in {"hotel", "museum"} -> "tourism"
      [] k = "park"                -> "leisure"
      [] k = "supermarket"         -> "shop"
      [] OTHER                     -> "amenity"

TagDimensions == {"amenity", "tourism", "leisure", "shop"}

\* C23: for every key of the category table the request built by searchPOI or
\* by searchByCategory carries exactly one of the parameters amenity, tourism,
\* leisure, shop: the one configured for the category, with its configured
\* value. For an absent, empty or unknown category searchPOI adds none.
C23_ExactlyTheConfiguredTag ==
    [][(CallAdded /\ AddedCall.url # Null /\ AddedCall.fn \in {"searchPOI", "searchByCategory"}) =>
         LET p == AddedCall.url[1].params
             k == AddedCall.category
             present == {d \in TagDimensions : p[d] # Null}
         IN  /\ k \in KeySet =>
                  /\ present = {ConfiguredDimension(k)}
                  /\ p[ConfiguredDimension(k)] = Some(k)
             /\ (k \notin KeySet /\ AddedCall.fn = "searchPOI") => present = {}]_vars

\* a text search filtered by supermarket waits for its response: it carries
\* shop=supermarket and no amenity
C23_Witness_ShopTagSent ==
    \E i \in 1..Len(calls) :
       /\ calls[i].fn = "searchPOI" /\ calls[i].pc = "fetch"
       /\ calls[i].category = "supermarket"
       /\ calls[i].url[1].params.shop = Some("supermarket")
       /\ calls[i].url[1].params.amenity = Null

-----------------------------------------------------------------------------
\* C24: searchByCategory of the API client, called with an empty category or
\* with one that is no key of the fixed table, fails with 'Invalid category',
\* dispatches no HTTP request and leaves the rate limiter's lastRequestTime
\* unchanged.
C24_InvalidCategoryFailsWithoutRequest ==
    [][\A c \in ApiCategories \ KeySet, v \in ApiViewboxes :
          searchByCategory(c, v, Some(Center1)) =>
             /\ CallAdded
             /\ AddedCall.pc = "done" /\ AddedCall.outcome = "rejected"
             /\ AddedCall.url = Null
             /\ delivered' = [call |-> Len(calls'), fn |-> "searchByCategory",
                              outcome |-> "rejected", value |-> <<"Invalid category">>]
             /\ lastRequestTime' = lastRequestTime
             /\ lastDispatch' = lastDispatch]_vars

\* searchByCategory('constructor') passed the check of its argument: its
\* request, with q=undefined and no tag parameter, waits for the response
C24_Witness_PrototypeKeyDispatched ==
    \E i \in 1..Len(calls) :
       /\ calls[i].fn = "searchByCategory" /\ calls[i].caller = "direct"
       /\ calls[i].category = "constructor"
       /\ calls[i].pc = "fetch"
       /\ calls[i].url[1].params.q = UndefinedText
       /\ lastDispatch # Null

-----------------------------------------------------------------------------
\* the decimal numeral of each response status of the model
StatusNumeral(status) ==
    CASE status = 404 -> <<"4", "0", "4">>
      [] status = 429 -> <<"4", "2", "9">>
      [] status = 500 -> <<"5", "0", "0">>

\* C25: when the response to a dispatched request has a status that is not
\* successful, the call of searchPOI, searchByCategory or reverseGeocode fails
\* with the error 'Nominatim API error: <status>' and returns no records.
C25_HttpErrorCarriesStatus ==
    [][\A i \in 1..Len(calls), status \in ApiHttpStatuses :
          FetchHttpError(i, status) =>
             /\ calls[i].fn \in {"searchPOI", "searchByCategory", "reverseGeocode"}
             /\ calls'[i].pc = "done" /\ calls'[i].outcome = "rejected"
             /\ delivered' = [call |-> i, fn |-> calls[i].fn, outcome |-> "rejected",
                              value |-> <<"Nominatim API error: ">> \o StatusNumeral(status)]]_vars

\* a text search failed with status 500 and then a reverse geocoding with 429
C25_Witness_TwoFunctionsFailed ==
    /\ Len(calls) = 2
    /\ calls[1].fn = "searchPOI" /\ calls[1].outcome = "rejected"
    /\ calls[2].fn = "reverseGeocode" /\ calls[2].outcome = "rejected"
    /\ delivered = [call |-> 2, fn |-> "reverseGeocode", outcome |-> "rejected",
                    value |-> <<"Nominatim API error: ", "4", "2", "9">>]

-----------------------------------------------------------------------------
\* C26: each invocation of search or searchCategory causes at most one call of
\* the API client: exactly one when its guard passes, none when the guard
\* rejects.  No other step adds a call, so a failed or empty-result call is
\* never issued again and the number of API calls never exceeds the number of
\* guard-passing invocations; a call that has settled stays settled.
C26_OneCallPerPassingInvocation ==
    [][/\ Len(calls') \in {Len(calls), Len(calls) + 1}
       /\ CallAdded =>
            \E q \in Queries, c \in InputCategories :
               \/ Trim(q) # <<>> /\ search(q, c)
               \/ c \in KeySet \cup ObjectPrototypeKeys /\ searchCategory(c)
       /\ \A q \in Queries, c \in InputCategories :
            search(q, c) =>
               Len(calls') = Len(calls) + (IF SearchGuardRejects(q) THEN 0 ELSE 1)
       /\ \A c \in InputCategories :
            searchCategory(c) =>
               Len(calls') = Len(calls) + (IF CategoryGuardRejects(c) THEN 0 ELSE 1)
       /\ \A i \in 1..Len(calls) : calls[i].pc = "done" => calls'[i] = calls[i]]_vars

\* one call failed, the next returned an empty list, then a blank query was
\* rejected: two API calls, none outstanding
C26_Witness_FailedEmptyRejected ==
    /\ Len(calls) = 2
    /\ calls[1].outcome = "rejected" /\ calls[1].pc = "done"
    /\ calls[2].outcome = "resolved" /\ calls[2].pc = "done"
    /\ results = <<>>
    /\ error = Some(MsgEnterTerm)

-----------------------------------------------------------------------------
\* the categories of the fixed set used by the guard-passing searches so far,
\* oldest first (in MruSpec no call is answered and its record keeps its
\* arguments)
UsedCategories ==
    LET used == SelectSeq(calls, LAMBDA c : c.category \in KeySet)
    IN  [i \in 1..Len(used) |-> used[i].category]

\* the distinct elements of a history, the most recently used first
RECURSIVE MostRecentFirst(_)
MostRecentFirst(h) ==
    IF h = <<>> THEN <<>>
    ELSE LET last == h[Len(h)]
         IN  <<last>> \o MostRecentFirst(SelectSeq(h, LAMBDA k : k # last))

-----------------------------------------------------------------------------
\* the place part of an address: the first present of city, town, village
PlacePart(a) ==
    IF a.city # <<>> THEN <<a.city>>
    ELSE IF a.town # <<>> THEN <<a.town>>
    ELSE IF a.village # <<>> THEN <<a.village>>
    ELSE <<>>

CountryPart(a) == IF a.country # <<>> THEN <<a.country>> ELSE <<>>

\* the road part as the claim has it: the road, followed by a space and the
\* house number when one is present; no part without a road
RoadPart(a) ==
    IF a.road = <<>> THEN <<>>
    ELSE IF a.house_number = <<>> THEN <<a.road>>
    ELSE <<a.road \o <<" ">> \o a.house_number>>

\* the road part with a house number that has no road standing alone
RoadOrHousePart(a) ==
    IF a.road = <<>> /\ a.house_number # <<>> THEN <<a.house_number>> ELSE RoadPart(a)

\* the ", "-join of the parts, the display string when there is none
JoinedOrDisplay(parts, item) ==
    IF parts = <<>> THEN item.display_name ELSE Join(parts, <<",", " ">>)

AddressOf(item) == IF item.address = Null THEN NoAddress ELSE item.address[1]

\* the records a direct caller of searchPOI has received
DeliveredRecords ==
    IF delivered.outcome = "resolved" /\ delivered.fn = "searchPOI" THEN delivered.value ELSE <<>>

\* C28 as stated: address is the ", "-join of the non-empty parts {road,
\* followed by a space and the house number when one is present}, {first
\* present of city/town/village}, {country}, and the full display string when
\* none of these parts is present.
C28_AddressFromRoadPlaceCountry ==
    \A i \in 1..Len(DeliveredRecords) :
       LET r == DeliveredRecords[i]
           a == AddressOf(r.raw)
       IN  r.address = JoinedOrDisplay(RoadPart(a) \o PlacePart(a) \o CountryPart(a), r.raw)

\* C28, amended: as stated, except that a house number without a road is a
\* part of its own, in the place of the road part; the display string is used
\* when none of road, house number, city/town/village and country is present.
C28_AddressWithLoneHouseNumber ==
    \A i \in 1..Len(DeliveredRecords) :
       LET r == DeliveredRecords[i]
           a == AddressOf(r.raw)
       IN  r.address = JoinedOrDisplay(RoadOrHousePart(a) \o PlacePart(a) \o CountryPart(a),
                                       r.raw)

\* the example of the claim, answered to the second of two calls
C28_Witness_MainSt1BerlinGermany ==
    /\ Len(calls) = 2
    /\ Len(DeliveredRecords) = 1
    /\ DeliveredRecords[1].raw.address
          = Some([NoAddress EXCEPT !.road = <<"M","a","i","n"," ","S","t">>,
                                   !.house_number = <<"1">>,
                                   !.city = <<"B","e","r","l","i","n">>,
                                   !.country = <<"G","e","r","m","a","n","y">>])
    /\ DeliveredRecords[1].address
          = <<"M","a","i","n"," ","S","t"," ","1",","," ","B","e","r","l","i","n",
              ","," ","G","e","r","m","a","n","y">>

-----------------------------------------------------------------------------
\* the place of a character in the alphabet, the space before every letter
CharRank(c) ==
    LET l == ToLowerChar(c)
    IN  IF \E i \in 1..26 : LowerCaseLetters[i] = l
        THEN CHOOSE i \in 1..26 : LowerCaseLetters[i] = l
        ELSE 0

\* a.localeCompare(b) < 0 on texts of letters and spaces
RECURSIVE TextBefore(_, _)
TextBefore(a, b) ==
    IF b = <<>> THEN FALSE
    ELSE IF a = <<>> THEN TRUE
    ELSE IF CharRank(Head(a)) # CharRank(Head(b)) THEN CharRank(Head(a)) < CharRank(Head(b))
    ELSE TextBefore(Tail(a), Tail(b))

\* the keys of the exposed categories list
CategoryListKeys ==
    LET list == CategoriesOf(categoryOrder)
    IN  [i \in 1..Len(list) |-> list[i].key]

-----------------------------------------------------------------------------
\* C30: for calls of rateLimitedFetch that do not overlap, a call that begins
\* less than 1000 ms after the last dispatch is suspended until 1000 ms have
\* passed since that dispatch and is dispatched no earlier, a call that begins
\* 1000 ms or more after it (or before any dispatch) is dispatched without
\* delay, and consecutive dispatches are at least 1000 ms apart.
C30_SerialCallsWaitOutTheInterval ==
    [][/\ (CallAdded /\ AddedCall.url # Null) =>
            IF lastDispatch # Null /\ clock - lastDispatch[1] < 1000
            THEN /\ AddedCall.pc = "timer"
                 /\ AddedCall.due = lastDispatch[1] + 1000
                 /\ lastDispatch' = lastDispatch
            ELSE /\ AddedCall.pc = "fetch"
                 /\ lastDispatch' = Some(clock)
       /\ \A i \in 1..Len(calls) :
            (calls[i].pc = "timer" /\ Dispatched(i)) =>
               /\ clock >= calls[i].due
               /\ lastDispatch' = Some(clock)
       /\ ((\E i \in 1..Len(calls') : Dispatched(i)) /\ lastDispatch # Null) =>
            lastDispatch'[1] - lastDispatch[1] >= 1000]_vars

\* the third call waits for the interval since the dispatch of the second,
\* which had waited for the interval since the dispatch of the first
C30_Witness_ThirdCallSuspended ==
    /\ Len(calls) = 3
    /\ calls[1].pc = "fetch" /\ calls[2].pc = "fetch"
    /\ calls[3].pc = "timer"
    /\ lastDispatch # Null
    /\ lastDispatch[1] >= StartTime + 1000
    /\ clock < calls[3].due

-----------------------------------------------------------------------------
\* some call is dispatched in this step
SomeDispatch == \E i \in 1..Len(calls') : Dispatched(i)

\* C31: lastRequestTime of the rate limiter advances monotonically under any
\* interleaving of callers: it is written only when a caller dispatches, every
\* write sets it to the clock value of that dispatch, it never decreases, and
\* after every dispatch it is the time of the most recent dispatch.
C31_LastRequestTimeMonotonic ==
    [][/\ lastRequestTime' >= lastRequestTime
       /\ lastRequestTime' # lastRequestTime => SomeDispatch
       /\ SomeDispatch =>
            /\ lastRequestTime' = clock
            /\ clock' = clock
            /\ lastDispatch' = Some(lastRequestTime')
       /\ lastDispatch' # Null => lastRequestTime' = lastDispatch'[1]]_vars

\* three overlapping callers: the first dispatched at once, the two others
\* waited on the same timer and were dispatched one interval later, the stamp
\* is the time of their dispatch
C31_Witness_OverlappingCallersDispatched ==
    /\ Len(calls) = 3
    /\ \A i \in 1..3 : calls[i].pc = "fetch"
    /\ lastRequestTime = StartTime + MIN_REQUEST_INTERVAL
    /\ lastDispatch = Some(lastRequestTime)

-----------------------------------------------------------------------------
\* call i is suspended in the rate-limit wait
Waiting(i) == i <= Len(calls) /\ calls[i].pc = "timer"

\* C32: every call of rateLimitedFetch eventually dispatches its request,
\* however many calls overlap: a call that waits does so on one timer of at
\* most 1000 ms, is dispatched when that timer has run, never waits a second
\* time, and no waiting call waits forever.
C32_EveryCallEventuallyDispatched ==
    /\ \A i \in 1..MaxFetches : Waiting(i) ~> ~Waiting(i)
    /\ [][/\ (CallAdded /\ AddedCall.pc = "timer") =>
               /\ AddedCall.due > clock
               /\ AddedCall.due - clock <= 1000
          /\ \A i \in 1..Len(calls) :
               /\ (Waiting(i) /\ ~Waiting(i)') => Dispatched(i)
               /\ ~Waiting(i) => ~Waiting(i)']_vars

\* two callers wait on timers while the request of a third is outstanding
C32_Witness_TwoWaitBehindOne ==
    /\ Len(calls) = 3
    /\ calls[1].pc = "fetch"
    /\ Waiting(2) /\ Waiting(3)
    /\ clock < calls[2].due

-----------------------------------------------------------------------------
-----------------------------------------------------------------------------
\* a key of the fixed set is promoted in this step: by a guard-passing search
\* or searchCategory with that category, or by promoteCategory called directly
PromotionOf(k) ==
    \/ Starts /\ AddedCall.category = k
    \/ calls' = calls /\ UNCHANGED <<results, isLoading, error, searchQuery, selectedCategory,
                                     selectedPOI, mapBounds, mapCenter>>

\* C34: categoryOrder is changed only by promotion.  A step that changes it
\* promotes a key of the fixed set to the front; a search without category,
\* the processing of a response (items, empty list, failure), selectPOI,
\* clearSelection, clearSearch and updateMapViewport leave it unchanged.
C34_OrderChangedOnlyByPromotion ==
    [][/\ categoryOrder' # categoryOrder =>
            \E k \in KeySet :
               /\ PromotionOf(k)
               /\ categoryOrder' = <<k>> \o WithoutKey(categoryOrder, k)
       /\ (Starts /\ AddedCall.category = "") => categoryOrder' = categoryOrder
       /\ (\E i \in 1..Len(calls) : Settles(i)) => categoryOrder' = categoryOrder
       /\ (\E poi \in SelectablePOIs : selectPOI(poi)) => categoryOrder' = categoryOrder
       /\ clearSelection => categoryOrder' = categoryOrder
       /\ clearSearch => categoryOrder' = categoryOrder
       /\ (\E v \in ViewportInputs : updateMapViewport(v[1], v[2])) =>
            categoryOrder' = categoryOrder]_vars

\* a failed search with the category cafe was cleared after the viewport had
\* been set: Cafes is still at the front
C34_Witness_ClearedWithPromotedOrder ==
    /\ Len(calls) >= 1 /\ calls[1].outcome = "rejected"
    /\ error = Null /\ results = <<>> /\ searchQuery = <<>> /\ selectedCategory = ""
    /\ mapBounds # Null
    /\ categoryOrder[1] = "cafe"

-----------------------------------------------------------------------------
\* everything of the coordinator but error is left as it was, and no API call
\* is made
OnlyErrorMayChange ==
    /\ UNCHANGED <<results, isLoading, selectedPOI, searchQuery, selectedCategory,
                   categoryOrder, mapBounds, mapCenter>>
    /\ calls' = calls

\* C35: a search with an empty or whitespace-only query and a searchCategory
\* with an empty category or one that is no key of the fixed set are turned
\* away by the guard and change only error: results, isLoading, selected,
\* searchQuery, selectedCategory, categoryOrder and the viewport stay exactly
\* as they were and Loading is not entered, also while another request is
\* outstanding.
C35_RejectedInvocationChangesOnlyError ==
    [][/\ \A q \in Queries, c \in InputCategories :
            (Trim(q) = <<>> /\ search(q, c)) =>
               error' = Some(MsgEnterTerm) /\ OnlyErrorMayChange
       /\ \A c \in InputCategories \ KeySet :
            searchCategory(c) =>
               error' = Some(MsgSelectCat) /\ OnlyErrorMayChange]_vars

\* searchCategory('constructor') was not turned away: with results and an
\* error of the search before it wiped, the coordinator is Loading
C35_Witness_PrototypeKeyEntersLoading ==
    /\ Len(calls) = 2
    /\ calls[1].outcome = "rejected"
    /\ calls[2].caller = "searchCategory" /\ calls[2].category = "constructor"
    /\ calls[2].pc # "done"
    /\ isLoading /\ error = Null
    /\ selectedCategory = "constructor"

-----------------------------------------------------------------------------
\* the state right after a guard-passing invocation: reset, Loading, its
\* request pending
ResetAndLoading ==
    /\ results' = <<>>
    /\ error' = Null
    /\ selectedPOI' = Null
    /\ isLoading' = TRUE
    /\ CallAdded /\ AddedCall.outcome = "pending"

\* C36: right after a search(query, category) whose query is not blank has
\* been invoked, before any response is processed, results = [], error = null,
\* selected = null, isLoading = true, searchQuery = query and selectedCategory
\* = category; right after a searchCategory(category) for a key of the fixed
\* set the same holds with searchQuery = '' and selectedCategory = category.
C36_StateAfterInvocation ==
    [][/\ \A q \in Queries, c \in InputCategories :
            (Trim(q) # <<>> /\ search(q, c)) =>
               /\ ResetAndLoading
               /\ searchQuery' = q
               /\ selectedCategory' = c
       /\ \A c \in KeySet :
            searchCategory(c) =>
               /\ ResetAndLoading
               /\ searchQuery' = <<>>
               /\ selectedCategory' = c]_vars

\* a category search started after a text search had failed: the failure
\* message is gone, the query is empty, the coordinator is Loading
C36_Witness_CategorySearchAfterFailure ==
    /\ Len(calls) = 2
    /\ calls[1].caller = "search" /\ calls[1].outcome = "rejected"
    /\ calls[2].caller = "searchCategory" /\ calls[2].outcome = "pending"
    /\ results = <<>> /\ error = Null /\ selectedPOI = Null /\ isLoading
    /\ searchQuery = <<>> /\ selectedCategory = "cafe"

-----------------------------------------------------------------------------
\* C37: in every reachable state isLoading = true implies that results is
\* empty, for any interleaving of overlapping searches, responses and clears.
C37_NoResultsWhileLoading == isLoading => results = <<>>

\* the coordinator is Loading for a second search, suspended in the rate-limit
\* wait, after the response of the first has been processed: the list is empty
C37_Witness_LoadingAfterEarlierResponse ==
    /\ Len(calls) = 2
    /\ calls[1].outcome = "resolved"
    /\ calls[2].pc = "timer"
    /\ isLoading
    /\ results = <<>>

-----------------------------------------------------------------------------
\* what the response of coordinator call i writes when it settles in this step
ResponseWritten(i) ==
    /\ ~isLoading'
    /\ IF calls'[i].outcome = "resolved"
       THEN \E body \in Payloads :
               /\ results' = NormalizeAll(body, calls[i].category)
               /\ error' = IF calls[i].caller = "search"
                           THEN SearchResolvedError(results')
                           ELSE CategoryResolvedError(calls[i].category, results')
       ELSE /\ results' = results
            /\ error' = Some(<<"Search failed. Please try again.">>)

\* the coordinator has been cleared: no query, no category, no results, no
\* error, no selection
Cleared ==
    /\ results = <<>> /\ error = Null /\ selectedPOI = Null
    /\ searchQuery = <<>> /\ selectedCategory = ""

\* C38: clearSearch leaves isLoading and the outstanding requests as they are
\* (a clear while a request is pending leaves isLoading true), and a
\* response that settles afterwards, with no new search invoked, still writes
\* results and error and resets isLoading.
C38_ClearDoesNotCancel ==
    [][/\ clearSearch => (isLoading' = isLoading /\ calls' = calls)
       /\ \A i \in 1..Len(calls) :
            (Settles(i) /\ searchQuery = <<>> /\ selectedCategory = "")
               => ResponseWritten(i)]_vars

\* one search only was invoked and cleared while pending; its response has
\* set results on the cleared coordinator
C38_Witness_ResultsAfterClear ==
    /\ Len(calls) = 1
    /\ calls[1].outcome = "resolved"
    /\ searchQuery = <<>> /\ selectedCategory = ""
    /\ results # <<>>
    /\ ~isLoading

-----------------------------------------------------------------------------
\* a category hint is given: the argument is truthy
HintGiven(hint) == hint # "" /\ hint # UNDEFINED

\* the keys of the table with a tag value equal to the type, as indexes of the
\* declaration order
MatchingIndexes(type) ==
    {n \in 1..Len(CategoryKeys) :
        \E v \in {CATEGORIES[CategoryKeys[n]].amenity, CATEGORIES[CategoryKeys[n]].tourism,
                  CATEGORIES[CategoryKeys[n]].leisure, CATEGORIES[CategoryKeys[n]].shop} :
           v # UNDEFINED /\ v = type}

\* the category of a normalised item is absent
CategoryAbsent(p) == p.category \in {"", UNDEFINED}

\* what the claim states of the item p normalised under the hint
CategoryAsStated(p, hint) ==
    /\ HintGiven(hint) => p.category = hint
    /\ (~HintGiven(hint) /\ MatchingIndexes(p.raw.type) # {}) =>
          \E n \in MatchingIndexes(p.raw.type) :
             /\ p.category = CategoryKeys[n]
             /\ \A m \in MatchingIndexes(p.raw.type) : n <= m
    /\ (~HintGiven(hint) /\ MatchingIndexes(p.raw.type) = {}) =>
          /\ CategoryAbsent(p)
          /\ p.icon = GenericIcon
          /\ p.categoryLabel = <<p.raw.type>>
    /\ p.category \in KeySet \/ CategoryAbsent(p)

\* C39: every item searchPOI returns has the hinted category when a hint was
\* given; otherwise the first category of the table, in declaration order, with
\* a tag value equal to the item's type; when none matches the category is
\* absent, the icon the generic marker and the label the raw type. The
\* category is always a key of the table or absent.
C39_CategoryDetected ==
    [][\A i \in 1..Len(calls) :
          (calls[i].pc = "fetch" /\ calls'[i].outcome = "resolved")
             => \A n \in 1..Len(delivered'.value) :
                   CategoryAsStated(delivered'.value[n], calls[i].category)]_vars

\* a cafe returned under the hint 'invalid': the item carries a category that
\* is no key of the table
C39_Witness_UnknownHintKept ==
    /\ delivered.outcome = "resolved"
    /\ Len(delivered.value) = 1
    /\ delivered.value[1].raw.type = "cafe"
    /\ delivered.value[1].category = "invalid"
    /\ delivered.value[1].icon = GenericIcon

====
